---- MODULE Spec2Model ----
(***************************************************************************)
(* Upsert-by-key protocol of sheets_write.py and the two-phase lead        *)
(* pipeline of scripts/append_and_notify.py, over a row-oriented sheet.    *)
(*                                                                         *)
(* The sheet is a grid of strings: row 1 is the header, the rows after it  *)
(* are data rows.  A record is a Python dict, kept as the sequence of its  *)
(* <<field, value>> items in insertion order.  A store call of the kinds   *)
(* named in a fault set raises; every other call answers from the sheet.   *)
(***************************************************************************)
EXTENDS Integers, Sequences, FiniteSets, TLC

VARIABLES
    cfg,      \* the environment (.env) the process runs with
    sheet,    \* the worksheet: row 1 the header, then the data rows
    clock,    \* the local time, in seconds
    hist,     \* the calls made so far, each with what it was given and what it did
    inflight  \* per worker, the upsert it has begun and not yet finished

vars == <<cfg, sheet, clock, hist, inflight>>

(***************************************************************************)
(* Bound of the model: the number of calls (upserts and pipeline runs) of  *)
(* one behaviour.                                                          *)
(***************************************************************************)
MaxCalls == 2

\* the number of deliveries of one behaviour of the pipeline on its own
MaxDeliveries == 2

\* the number of upserts of one behaviour under a renamed key column
MaxAliasCalls == 2

\* the number of POST requests of one behaviour of the web handlers
MaxPosts == 2

\* the number of calls of one behaviour of row insertions
MaxInserts == 2

\* the number of pipeline runs of one behaviour taken step by step
MaxStepRuns == 2

\* the number of upserts begun in a behaviour with overlapping calls
MaxOverlapCalls == 3

\* the number of header reads of one behaviour
MaxHeaderReads == 2

\* the number of pipeline runs begun in a behaviour with overlapping runs
MaxOverlapRuns == 3

\* the number of upserts of one behaviour with failing cell writes
MaxUpdates == 2

(***************************************************************************)
(* Strings.  None is Python's None; strip() and lower() are tabulated on   *)
(* the strings the model uses (every other string is its own image).       *)
(***************************************************************************)
None == "<None>"

Strip(s) ==
    CASE s = " k1" -> "k1"
      [] s = " " -> ""
      [] OTHER -> s

Lower(s) ==
    CASE s = "Timestamp" -> "timestamp"
      [] s = "Updated_At" -> "updated_at"
      [] s = "WAMID" -> "wamid"
      [] s = "Ann" -> "ann"
      [] OTHER -> s

\* Python truthiness of an Optional[str]
Truthy(v) == v # None /\ v # ""

\* (v or "")
OrEmpty(v) == IF Truthy(v) THEN v ELSE ""

Min(S) == CHOOSE x \in S : \A y \in S : x <= y
Max(S) == CHOOSE x \in S : \A y \in S : x >= y

(***************************************************************************)
(* Python dict operations on a record.                                     *)
(***************************************************************************)
HasField(rec, f) == \E i \in 1..Len(rec) : rec[i][1] = f

\* record.get(f)
Get(rec, f) ==
    IF HasField(rec, f)
    THEN rec[CHOOSE i \in 1..Len(rec) : rec[i][1] = f][2]
    ELSE None

\* record[f] = v : in place when the key exists, else appended last
Put(rec, f, v) ==
    IF HasField(rec, f)
    THEN [i \in 1..Len(rec) |-> IF rec[i][1] = f THEN <<f, v>> ELSE rec[i]]
    ELSE Append(rec, <<f, v>>)

(***************************************************************************)
(* Environment (.env) as read by sheets_write.py.                          *)
(***************************************************************************)
\* _colnames(): the configured names, stripped and lower-cased
colnames(c) ==
    [timestamp    |-> Lower(Strip(c.COL_TIMESTAMP)),
     name         |-> Lower(Strip(c.COL_NAME)),
     phone        |-> Lower(Strip(c.COL_PHONE)),
     email        |-> Lower(Strip(c.COL_EMAIL)),
     message      |-> Lower(Strip(c.COL_MESSAGE)),
     source       |-> Lower(Strip(c.COL_SOURCE)),
     wamid        |-> Lower(Strip(c.COL_WAMID)),
     status_email |-> Lower(Strip(c.COL_STATUS_EMAIL)),
     updated_at   |-> Lower(Strip(c.COL_UPDATED_AT))]

\* the entries of IMMUTABLE_COLS as written: stripped, letter case kept
ImmutableSetAsWritten(c) ==
    {Strip(c.IMMUTABLE_COLS[i]) :
        i \in {j \in 1..Len(c.IMMUTABLE_COLS) : Strip(c.IMMUTABLE_COLS[j]) # ""}}

\* IMMUTABLE_COLS split on ",", each entry stripped and lower-cased, empties dropped
ImmutableSet(c) ==
    {Lower(Strip(c.IMMUTABLE_COLS[i])) :
        i \in {j \in 1..Len(c.IMMUTABLE_COLS) : Strip(c.IMMUTABLE_COLS[j]) # ""}}

\* _now_local_str(): the local time, to the second
TimeStr == <<"t1", "t2">>
now_local_str(t) == TimeStr[t]

(***************************************************************************)
(* The worksheet as gspread shows it.                                      *)
(***************************************************************************)
\* the header row the sheet is set up with: the default column names of
\* _colnames() and one column ("notes") that no record field maps to
DefaultHeader ==
    <<"timestamp", "name", "phone", "email", "message", "source", "wamid",
      "status_email", "updated_at", "notes">>

Width == Len(DefaultHeader)

BlankRow == [c \in 1..Width |-> ""]

\* what the store keeps for a written value: null / None is an empty cell
StoreValue(v) == IF v = None THEN "" ELSE v

\* ws.row_values(r): the cells of row r up to its last non-empty one
row_values(sh, r) ==
    IF r > Len(sh) THEN <<>>
    ELSE LET used == {c \in 1..Width : sh[r][c] # ""}
         IN  IF used = {} THEN <<>> ELSE SubSeq(sh[r], 1, Max(used))

\* ws.col_values(c): the cells of column c up to its last non-empty one
col_values(sh, c) ==
    LET used == {r \in 1..Len(sh) : sh[r][c] # ""}
    IN  IF used = {} THEN <<>> ELSE [r \in 1..Max(used) |-> sh[r][c]]

\* ws.findall(q) with a string query: every cell of the grid, header row
\* included, whose value equals q
findall(sh, q) ==
    {[row |-> r, col |-> c, value |-> sh[r][c]] :
        <<r, c>> \in {p \in (1..Len(sh)) \X (1..Width) : sh[p[1]][p[2]] = q}}

\* ws.cell(r, c).value
cell_value(sh, r, c) == sh[r][c]

\* len(ws.get_all_values()): rows up to the last non-empty one
get_all_values_len(sh) ==
    LET used == {r \in 1..Len(sh) : sh[r] # BlankRow}
    IN  IF used = {} THEN 0 ELSE Max(used)

\* ws.append_row(values, table_range="A1"): the values go into the row after
\* the last row of the table; a row of empty values leaves the grid as it was
append_row(sh, values) ==
    LET row == [c \in 1..Width |-> IF c <= Len(values) THEN StoreValue(values[c]) ELSE ""]
    IN  IF row = BlankRow THEN sh ELSE Append(sh, row)

\* ws.update(a1, value) of the single cell (r, c)
update_cell(sh, r, c, v) ==
    [sh EXCEPT ![r] = [@ EXCEPT ![c] = StoreValue(v)]]

(***************************************************************************)
(* Header mapping (sheets_write.py).                                       *)
(***************************************************************************)
\* a header list that leaves out the columns whose name is empty
HeadersNonEmptyOnly(sh) ==
    LET rv == row_values(sh, 1)
        named == {i \in 1..Len(rv) : Strip(rv[i]) # ""}
    IN  [j \in 1..Cardinality(named) |->
            Strip(rv[CHOOSE i \in named :
                        Cardinality({m \in named : m <= i}) = j])]

\* _headers(ws)
headers(sh) ==
    LET rv == row_values(sh, 1) IN [i \in 1..Len(rv) |-> Strip(rv[i])]

\* _header_index_map(ws): lower-cased header -> ZERO-based index; of two
\* columns with the same name the later one wins
header_index_map(sh) ==
    LET hs == headers(sh)
        named == {i \in 1..Len(hs) : hs[i] # ""}
    IN  [n \in {Lower(hs[i]) : i \in named} |->
            Max({i \in named : Lower(hs[i]) = n}) - 1]

(***************************************************************************)
(* Key lookup (sheets_write.py).  A lookup answers [raised, row]; row 0 is *)
(* Python's None.                                                          *)
(***************************************************************************)
NotFound == 0

\* a text search over the whole grid, in whatever column the text is found
FastPathAnyColumn(sh, wamid, col_idx) ==
    {m.row : m \in {x \in findall(sh, wamid) : Strip(OrEmpty(x.value)) = wamid}}

\* the fast path: findall + column filter + exact equality, first match
FastPathRows(sh, wamid, col_idx) ==
    {m.row : m \in {x \in findall(sh, wamid) :
                       x.col = col_idx /\ Strip(OrEmpty(x.value)) = wamid}}

\* the fallback: scan of the key column, the header row skipped
FallbackRows(sh, wamid, col_idx) ==
    LET col_vals == col_values(sh, col_idx)
    IN  {r \in 1..Len(col_vals) : r # 1 /\ Strip(OrEmpty(col_vals[r])) = wamid}

\* a lookup that answers the last row of the key instead of the first
FindLastRowByWamid(sh, c, wamid_in, faults) ==
    LET wamid == Strip(OrEmpty(wamid_in))
        col_idx == header_index_map(sh)[colnames(c).wamid] + 1
        rows == FallbackRows(sh, wamid, col_idx)
    IN  [raised |-> FALSE, row |-> IF wamid = "" \/ rows = {} THEN NotFound ELSE Max(rows)]

find_row_by_wamid(sh, c, wamid_in, faults) ==
    LET wamid == Strip(OrEmpty(wamid_in))
        idx_map == header_index_map(sh)
        wamid_col_name == colnames(c).wamid
        col_idx == idx_map[wamid_col_name] + 1
        fast == IF "findall" \in faults THEN {} ELSE FastPathRows(sh, wamid, col_idx)
        slow == IF "col_values" \in faults THEN {} ELSE FallbackRows(sh, wamid, col_idx)
    IN  IF wamid = "" THEN [raised |-> FALSE, row |-> NotFound]
        ELSE IF "row_values" \in faults THEN [raised |-> TRUE, row |-> NotFound]
        ELSE IF wamid_col_name \notin DOMAIN idx_map THEN [raised |-> FALSE, row |-> NotFound]
        ELSE IF fast # {} THEN [raised |-> FALSE, row |-> Min(fast)]
        ELSE IF slow # {} THEN [raised |-> FALSE, row |-> Min(slow)]
        ELSE [raised |-> FALSE, row |-> NotFound]

(***************************************************************************)
(* upsert_by_wamid (sheets_write.py).  The answer carries the sheet after  *)
(* the call, the caller's dict as the call left it (the dict is mutated in *)
(* place), the cells written, the row appended and, on the insert path,    *)
(* what the lookup after the append answered.                              *)
(***************************************************************************)
UpsertAnswer(sh, rec, raised, error, path, row, created, writes, appended) ==
    [sheet |-> sh, record |-> rec, raised |-> raised, error |-> error,
     path |-> path, row |-> row, created |-> created, writes |-> writes,
     appended |-> appended, relookup |-> NotFound]

\* a row that holds the values of the record in the order of its fields
InsertRowValuesInRecordOrder(sh, rec) ==
    LET hs == headers(sh)
        n == IF Len(hs) > 1 THEN Len(hs) ELSE 1
    IN  [p \in 1..n |-> IF p <= Len(rec) THEN rec[p][2] ELSE ""]

\* the row built on the insert path: aligned to the header, "" where the
\* record has no field, the later of two fields of the same column winning
InsertRowValues(sh, rec) ==
    LET hs == headers(sh)
        idx_map == header_index_map(sh)
        n == IF Len(hs) > 1 THEN Len(hs) ELSE 1
        at == [i \in 1..Len(rec) |->
                 LET k == Lower(Strip(OrEmpty(rec[i][1])))
                 IN  IF k \in DOMAIN idx_map THEN idx_map[k] + 1 ELSE 0]
    IN  [p \in 1..n |->
            LET hits == {i \in 1..Len(rec) : at[i] = p}
            IN  IF hits = {} THEN "" ELSE rec[Max(hits)][2]]

InsertPath(sh, c, rec, wamid_val, faults) ==
    LET row_vals == InsertRowValues(sh, rec)
        sh2 == append_row(sh, row_vals)
        found == find_row_by_wamid(sh2, c, wamid_val, faults)
        row_num == IF found.row # NotFound THEN found.row
                   ELSE IF "get_all_values" \in faults THEN -1
                   ELSE get_all_values_len(sh2)
    IN  IF "append_row" \in faults
        THEN UpsertAnswer(sh, rec, TRUE, "StoreError", "insert", NotFound, FALSE, <<>>, <<>>)
        ELSE IF found.raised
        THEN UpsertAnswer(sh2, rec, TRUE, "StoreError", "insert", NotFound, FALSE, <<>>, row_vals)
        ELSE [UpsertAnswer(sh2, rec, FALSE, "", "insert", row_num, TRUE, <<>>, row_vals)
                EXCEPT !.relookup = found.row]

\* step 3 of the update path: one ws.update per field of the record that maps
\* to a header column and is not immutable, in the dict's order
RECURSIVE ApplyUpdates(_, _, _, _, _, _, _, _)
ApplyUpdates(sh, rec, i, row_num, idx_map, immutable, faults, writes) ==
    IF i > Len(rec) THEN [sheet |-> sh, raised |-> FALSE, writes |-> writes]
    ELSE LET k == Lower(Strip(OrEmpty(rec[i][1])))
             value == rec[i][2]
         IN  IF k \notin DOMAIN idx_map \/ k \in immutable
             THEN ApplyUpdates(sh, rec, i + 1, row_num, idx_map, immutable, faults, writes)
             ELSE IF "update" \in faults \/ ("update2" \in faults /\ Len(writes) >= 1)
             THEN [sheet |-> sh, raised |-> TRUE, writes |-> writes]
             ELSE ApplyUpdates(update_cell(sh, row_num, idx_map[k] + 1, value),
                               rec, i + 1, row_num, idx_map, immutable, faults,
                               Append(writes, [row |-> row_num, col |-> idx_map[k] + 1,
                                               name |-> k, value |-> StoreValue(value)]))

\* an update that rewrites the whole located row from the record, as the insert
\* path builds a row
UpdatePathWholeRow(sh, c, rec, row_num, preserve_timestamp, faults, t) ==
    LET row_vals == InsertRowValues(sh, rec)
        whole == [p \in 1..Width |->
                    IF p <= Len(row_vals) THEN StoreValue(row_vals[p]) ELSE ""]
    IN  UpsertAnswer([sh EXCEPT ![row_num] = whole], rec, FALSE, "", "update",
                     row_num, FALSE, <<>>, <<>>)

\* an update that puts the row back as it was when one of its writes fails
UpdatePathWithRollback(sh, c, rec, row_num, preserve_timestamp, faults, t) ==
    LET idx_map == header_index_map(sh)
        upd_name == colnames(c).updated_at
        rec2 == IF ~HasField(rec, upd_name) THEN Put(rec, upd_name, now_local_str(t)) ELSE rec
        done == ApplyUpdates(sh, rec2, 1, row_num, idx_map, ImmutableSet(c), faults, <<>>)
    IN  UpsertAnswer(IF done.raised THEN sh ELSE done.sheet, rec2, done.raised,
                     IF done.raised THEN "StoreError" ELSE "",
                     "update", row_num, FALSE, done.writes, <<>>)

\* an update that fills the empty cells of the row and leaves the others
UpdatePathFillingBlanks(sh, c, rec, row_num, preserve_timestamp, faults, t) ==
    LET idx_map == header_index_map(sh)
        Blank(item) ==
            LET k == Lower(Strip(OrEmpty(item[1])))
            IN  k \in DOMAIN idx_map /\ sh[row_num][idx_map[k] + 1] = ""
        done == ApplyUpdates(sh, SelectSeq(rec, Blank), 1, row_num, idx_map,
                             ImmutableSet(c), faults, <<>>)
    IN  UpsertAnswer(done.sheet, rec, done.raised, IF done.raised THEN "StoreError" ELSE "",
                     "update", row_num, FALSE, done.writes, <<>>)

UpdatePath(sh, c, rec, row_num, preserve_timestamp, faults, t) ==
    LET idx_map == header_index_map(sh)
        ts_name == colnames(c).timestamp
        upd_name == colnames(c).updated_at
        immutable == ImmutableSet(c)
        current_ts == IF "cell" \in faults THEN None
                      ELSE cell_value(sh, row_num, idx_map[ts_name] + 1)
        rec1 == IF preserve_timestamp /\ ts_name \in DOMAIN idx_map /\ Truthy(current_ts)
                THEN Put(rec, ts_name, current_ts)
                ELSE rec
        rec2 == IF /\ upd_name \in DOMAIN idx_map
                   /\ (~HasField(rec1, upd_name) \/ Strip(OrEmpty(Get(rec1, upd_name))) = "")
                THEN Put(rec1, upd_name, now_local_str(t))
                ELSE rec1
        done == ApplyUpdates(sh, rec2, 1, row_num, idx_map, immutable, faults, <<>>)
    IN  IF done.raised
        THEN UpsertAnswer(done.sheet, rec2, TRUE, "StoreError", "update", row_num, FALSE, done.writes, <<>>)
        ELSE UpsertAnswer(done.sheet, rec2, FALSE, "", "update", row_num, FALSE, done.writes, <<>>)

\* a write step that locates the row again on the sheet it writes to
WriteWithFreshLookup(sh, c, rec, row_num, preserve_timestamp, faults, t) ==
    LET wamid_key == IF HasField(rec, "wamid") THEN "wamid" ELSE colnames(c).wamid
        wamid_val == Strip(OrEmpty(Get(rec, wamid_key)))
    IN  IF find_row_by_wamid(sh, c, wamid_val, faults).row = NotFound
        THEN InsertPath(sh, c, rec, wamid_val, faults)
        ELSE UpdatePath(sh, c, rec, find_row_by_wamid(sh, c, wamid_val, faults).row,
                        preserve_timestamp, faults, t)

\* upsert_by_wamid from the answer of its key lookup on: row_num is what the
\* lookup answered when it ran, sh is the sheet as it is when the write runs
WriteAfterLookup(sh, c, rec, row_num, preserve_timestamp, faults, t) ==
    LET wamid_key == IF HasField(rec, "wamid") THEN "wamid" ELSE colnames(c).wamid
        wamid_val == Strip(OrEmpty(Get(rec, wamid_key)))
    IN  IF row_num = NotFound
        THEN InsertPath(sh, c, rec, wamid_val, faults)
        ELSE UpdatePath(sh, c, rec, row_num, preserve_timestamp, faults, t)

\* an upsert that takes a record without a key for a new row
UpsertAcceptingNoKey(sh, c, rec, preserve_timestamp, faults, t) ==
    LET wamid_key == IF HasField(rec, "wamid") THEN "wamid" ELSE colnames(c).wamid
        wamid_val == Strip(OrEmpty(Get(rec, wamid_key)))
        found == find_row_by_wamid(sh, c, wamid_val, faults)
    IN  IF "open" \in faults \/ "row_values" \in faults \/ found.raised
        THEN UpsertAnswer(sh, rec, TRUE, "StoreError", "none", NotFound, FALSE, <<>>, <<>>)
        ELSE IF found.row = NotFound
        THEN InsertPath(sh, c, rec, wamid_val, faults)
        ELSE UpdatePath(sh, c, rec, found.row, preserve_timestamp, faults, t)

upsert_by_wamid(sh, c, rec, preserve_timestamp, faults, t) ==
    LET wamid_key == IF HasField(rec, "wamid") THEN "wamid" ELSE colnames(c).wamid
        wamid_val == Strip(OrEmpty(Get(rec, wamid_key)))
        found == find_row_by_wamid(sh, c, wamid_val, faults)
    IN  IF "open" \in faults \/ "row_values" \in faults
        THEN UpsertAnswer(sh, rec, TRUE, "StoreError", "none", NotFound, FALSE, <<>>, <<>>)
        ELSE IF wamid_val = ""
        THEN UpsertAnswer(sh, rec, TRUE, "ValueError", "none", NotFound, FALSE, <<>>, <<>>)
        ELSE IF found.raised
        THEN UpsertAnswer(sh, rec, TRUE, "StoreError", "none", NotFound, FALSE, <<>>, <<>>)
        ELSE IF found.row = NotFound
        THEN InsertPath(sh, c, rec, wamid_val, faults)
        ELSE UpdatePath(sh, c, rec, found.row, preserve_timestamp, faults, t)

\* append_by_header(record): the row is appended whatever the sheet holds;
\* the row number answered is what the key lookup finds after the append,
\* else len(ws.get_all_values()), else -1
append_by_header(sh, c, rec, faults) ==
    LET row_vals == InsertRowValues(sh, rec)
        sh2 == append_row(sh, row_vals)
        wamid_key == IF HasField(rec, "wamid") THEN "wamid" ELSE colnames(c).wamid
        wamid_val == Strip(OrEmpty(Get(rec, wamid_key)))
        found == find_row_by_wamid(sh2, c, wamid_val, faults)
        row_num == IF found.row # NotFound THEN found.row
                   ELSE IF "get_all_values" \in faults THEN -1
                   ELSE get_all_values_len(sh2)
    IN  IF "open" \in faults \/ "row_values" \in faults
        THEN UpsertAnswer(sh, rec, TRUE, "StoreError", "none", NotFound, FALSE, <<>>, <<>>)
        ELSE IF "append_row" \in faults
        THEN UpsertAnswer(sh, rec, TRUE, "StoreError", "append", NotFound, FALSE, <<>>, <<>>)
        ELSE [UpsertAnswer(sh2, rec, FALSE, "", "append", row_num, TRUE, <<>>, row_vals)
                EXCEPT !.relookup = found.row]

(***************************************************************************)
(* The lead pipeline (scripts/append_and_notify.py).                       *)
(***************************************************************************)
\* _flag(name): "1", "true", "yes", "on" in any case
Flag(v) == Lower(Strip(v)) \in {"1", "true", "yes", "on"}

\* _digits_only(s): re.sub(r"\D+", "", s or "")
digits_only(v) ==
    CASE v = "+55 11" -> "5511"
      [] v = None -> ""
      [] OTHER -> v

\* the first e-mail address in the text, lower-cased, or None
EmailIn(text) ==
    CASE text = "write Ann@x.io" -> "ann@x.io"
      [] OTHER -> None

\* (x or None)
OrNone(v) == IF Truthy(v) THEN v ELSE None

\* _extract_from_webhook(payload).  A payload is [shape, id, from, name, body]:
\* shape "message" carries entry[0].changes[0].value with one message and one
\* contact; "no_entry" has no entry at all; "empty_changes" has changes == [],
\* whose [0] raises; "not_object" is a JSON value that is no object (a list, a
\* string, a number), whose .get raises; "no_changes", "no_value" and
\* "no_messages" lack that key, and the default of the .get or the "or" stands
\* in ("no_messages" still carries its contact).
extract_from_webhook(payload) ==
    LET full == payload.shape = "message"
        wamid == IF full THEN Strip(OrEmpty(payload.id)) ELSE ""
        phone == IF full THEN digits_only(payload.from) ELSE ""
        name == IF full \/ payload.shape = "no_messages"
                THEN Strip(OrEmpty(payload.name)) ELSE ""
        text == IF full THEN Strip(OrEmpty(payload.body)) ELSE ""
    IN  [raised |-> payload.shape \in {"empty_changes", "not_object"},
         wamid |-> OrNone(wamid), name |-> OrNone(name), phone |-> OrNone(phone),
         email |-> OrNone(EmailIn(text)), message |-> OrNone(text),
         source |-> "whatsapp"]

\* _header_map(ws): lower-cased header -> ONE-based column
header_map(sh) ==
    LET hs == row_values(sh, 1)
        named == {i \in 1..Len(hs) : Strip(hs[i]) # ""}
    IN  [n \in {Lower(Strip(hs[i])) : i \in named} |->
            Max({i \in named : Lower(Strip(hs[i])) = n})]

\* _find_row_by_wamid(ws, wamid) of the pipeline: findall filtered by column only
pipeline_find_row(sh, c, wamid, faults) ==
    LET hmap == header_map(sh)
        col_name == Lower(Strip(c.COL_WAMID))
        col_idx == hmap[col_name]
        rows == IF "findall" \in faults THEN {}
                ELSE {m.row : m \in {x \in findall(sh, wamid) : x.col = col_idx}}
    IN  IF ~Truthy(wamid) THEN [raised |-> FALSE, row |-> NotFound]
        ELSE IF "row_values" \in faults THEN [raised |-> TRUE, row |-> NotFound]
        ELSE IF col_name \notin DOMAIN hmap THEN [raised |-> FALSE, row |-> NotFound]
        ELSE IF rows # {} THEN [raised |-> FALSE, row |-> Min(rows)]
        ELSE [raised |-> FALSE, row |-> NotFound]

\* step 2 of process_incoming: the dedupe check and the read of the timestamp
\* already on the row; any exception leaves is_dup false
DedupeCheck(sh, c, lead, faults) ==
    LET found == pipeline_find_row(sh, c, lead.wamid, faults)
        hmap == header_map(sh)
        ts_col_lower == Lower(Strip(c.COL_TIMESTAMP))
        failed == "open" \in faults \/ found.raised
        is_dup == ~failed /\ found.row # NotFound
        existing_ts == IF is_dup /\ ts_col_lower \in DOMAIN hmap /\ "cell" \notin faults
                       THEN cell_value(sh, found.row, hmap[ts_col_lower])
                       ELSE None
    IN  IF ~(Flag(c.DEDUPE_BY_WAMID) /\ Truthy(lead.wamid))
        THEN [looked |-> FALSE, failed |-> FALSE, is_dup |-> FALSE,
              row_idx |-> NotFound, existing_ts |-> None]
        ELSE [looked |-> TRUE, failed |-> failed, is_dup |-> is_dup,
              row_idx |-> IF failed THEN NotFound ELSE found.row,
              existing_ts |-> existing_ts]

\* a dict literal: the items in order, a repeated key keeping its first place
\* and its last value
RECURSIVE DictOf(_)
DictOf(items) ==
    IF items = <<>> THEN <<>>
    ELSE Put(DictOf(SubSeq(items, 1, Len(items) - 1)),
             items[Len(items)][1], items[Len(items)][2])

\* Truthy for a value that may be a string or None: (a or b)
Or2(a, b) == IF Truthy(a) THEN a ELSE b

\* the result of a run that stopped with an error
ErrorResult(error) == [ok |-> FALSE, status |-> "error", error |-> error]

NoUpsert == [called |-> FALSE]

\* the dedupe state of a run that ended before its dedupe check
NoDedupe ==
    [looked |-> FALSE, failed |-> FALSE, is_dup |-> FALSE,
     row_idx |-> NotFound, existing_ts |-> None]

UpsertSeen(rec, ans) ==
    [called |-> TRUE, given |-> rec, raised |-> ans.raised, error |-> ans.error,
     path |-> ans.path, row |-> ans.row, created |-> ans.created,
     writes |-> ans.writes, appended |-> ans.appended, relookup |-> ans.relookup,
     sheet |-> ans.sheet]

\* what one run of process_incoming did: the sheet it left, the step it
\* reached, its dedupe state, its upserts, the notifier's outcome ("none" when
\* not called) and the dict it returned
RunSeen(sheet_after, lead, step, dd, prov, notifier, final, result) ==
    [sheet |-> sheet_after, lead |-> lead, reached |-> step, dedupe |-> dd,
     provisional |-> prov, notifier |-> notifier, final |-> final,
     result |-> result]

\* a delivery status that counts every notifier call as delivered
EmailStatusAlwaysSent(dd, outcome) ==
    IF dd.is_dup THEN "skipped" ELSE "sent"

\* step 4: "skipped" for a duplicate, else "sent" when send_lead_email
\* answers True and "error" when it answers False or raises
EmailStatus(dd, outcome) ==
    IF dd.is_dup THEN "skipped"
    ELSE IF outcome = "sent" THEN "sent" ELSE "error"

\* a result whose status does not tell a duplicate from a new lead
RespondWithoutDedupeStatus(lead, dd, outcome, base_record, res1, merged_record, res2) ==
    LET row_idx1 == IF dd.row_idx # NotFound THEN dd.row_idx ELSE res1.row
    IN  RunSeen(res2.sheet, lead, "result", dd, UpsertSeen(base_record, res1),
                IF dd.is_dup THEN "none" ELSE outcome,
                UpsertSeen(merged_record, res2),
                [ok |-> EmailStatus(dd, outcome) \in {"sent", "skipped"},
                 status |-> "ok",
                 wamid |-> lead.wamid, row |-> row_idx1,
                 email_status |-> EmailStatus(dd, outcome)])

\* a result that reports a final upsert that raised as an error of the run
RespondFinalFailureIsError(lead, dd, outcome, base_record, res1, merged_record, res2) ==
    LET row_idx1 == IF dd.row_idx # NotFound THEN dd.row_idx ELSE res1.row
    IN  RunSeen(res2.sheet, lead, "result", dd, UpsertSeen(base_record, res1),
                IF dd.is_dup THEN "none" ELSE outcome,
                UpsertSeen(merged_record, res2),
                [ok |-> ~res2.raised /\ EmailStatus(dd, outcome) \in {"sent", "skipped"},
                 status |-> IF res2.raised THEN "error"
                            ELSE IF dd.is_dup THEN "dedupe" ELSE "ok",
                 wamid |-> lead.wamid, row |-> row_idx1,
                 email_status |-> EmailStatus(dd, outcome)])

\* a result whose ok flag looks at the status alone
RespondOkByStatus(lead, dd, outcome, base_record, res1, merged_record, res2) ==
    LET row_idx1 == IF dd.row_idx # NotFound THEN dd.row_idx ELSE res1.row
        row_idx2 == IF row_idx1 # NotFound \/ res2.raised THEN row_idx1 ELSE res2.row
    IN  RunSeen(res2.sheet, lead, "result", dd, UpsertSeen(base_record, res1),
                IF dd.is_dup THEN "none" ELSE outcome,
                UpsertSeen(merged_record, res2),
                [ok |-> TRUE,
                 status |-> IF dd.is_dup THEN "dedupe" ELSE "ok",
                 wamid |-> lead.wamid, row |-> row_idx2,
                 email_status |-> EmailStatus(dd, outcome)])

\* step 6: the result dict; row_idx is the dedupe row, else the row of the
\* provisional upsert, else the row of the final upsert
Respond(lead, dd, outcome, base_record, res1, merged_record, res2) ==
    LET row_idx1 == IF dd.row_idx # NotFound THEN dd.row_idx ELSE res1.row
        row_idx2 == IF row_idx1 # NotFound \/ res2.raised THEN row_idx1 ELSE res2.row
    IN  RunSeen(res2.sheet, lead, "result", dd, UpsertSeen(base_record, res1),
                IF dd.is_dup THEN "none" ELSE outcome,
                UpsertSeen(merged_record, res2),
                [ok |-> EmailStatus(dd, outcome) \in {"sent", "skipped"},
                 status |-> IF dd.is_dup THEN "dedupe" ELSE "ok",
                 wamid |-> lead.wamid, row |-> row_idx2,
                 email_status |-> EmailStatus(dd, outcome)])

\* a merged_record that carries the delivery status of the provisional upsert
MergedRecordKeepingStatus(c, dd, outcome, base_after, now_ts) ==
    DictOf(<<
        <<Strip(c.COL_TIMESTAMP), Or2(Get(base_after, Strip(c.COL_TIMESTAMP)), now_ts)>>,
        <<Strip(c.COL_WAMID), Get(base_after, Strip(c.COL_WAMID))>>,
        <<Strip(c.COL_STATUS_EMAIL), Get(base_after, Strip(c.COL_STATUS_EMAIL))>>,
        <<Strip(c.COL_UPDATED_AT),
          Or2(dd.existing_ts, Or2(Get(base_after, Strip(c.COL_TIMESTAMP)), now_ts))>> >>)

\* step 5: merged_record, read from base_record as the provisional upsert
\* left it
MergedRecord(c, dd, outcome, base_after, now_ts) ==
    DictOf(<<
        <<Strip(c.COL_TIMESTAMP), Or2(Get(base_after, Strip(c.COL_TIMESTAMP)), now_ts)>>,
        <<Strip(c.COL_NAME), Get(base_after, Strip(c.COL_NAME))>>,
        <<Strip(c.COL_PHONE), Get(base_after, Strip(c.COL_PHONE))>>,
        <<Strip(c.COL_EMAIL), Get(base_after, Strip(c.COL_EMAIL))>>,
        <<Strip(c.COL_MESSAGE), Get(base_after, Strip(c.COL_MESSAGE))>>,
        <<Strip(c.COL_SOURCE), Get(base_after, Strip(c.COL_SOURCE))>>,
        <<Strip(c.COL_WAMID), Get(base_after, Strip(c.COL_WAMID))>>,
        <<Strip(c.COL_STATUS_EMAIL), EmailStatus(dd, outcome)>>,
        <<Strip(c.COL_UPDATED_AT),
          Or2(dd.existing_ts, Or2(Get(base_after, Strip(c.COL_TIMESTAMP)), now_ts))>> >>)

\* step 5: the final upsert, on the sheet the provisional upsert left
FinalUpsert(c, sc, outcome, t, lead, dd, base_record, res1, merged_record) ==
    Respond(lead, dd, outcome, base_record, res1, merged_record,
            upsert_by_wamid(res1.sheet, c, merged_record, TRUE, sc.final, t))

\* a run that goes on to the notifier and the final upsert whatever the
\* provisional upsert did
AfterProvisionalIgnoringFailure(c, sc, outcome, t, lead, dd, base_record, res1) ==
    FinalUpsert(c, sc, outcome, t, lead, dd, base_record, res1,
                MergedRecord(c, dd, outcome, res1.record, now_local_str(t)))

\* after the provisional upsert: an exception ends the run, else steps 4-6
AfterProvisional(c, sc, outcome, t, lead, dd, base_record, res1) ==
    IF res1.raised
    THEN RunSeen(res1.sheet, lead, "provisional", dd, UpsertSeen(base_record, res1),
                 "none", NoUpsert,
                 [ok |-> FALSE, status |-> "error", error |-> "sheets_upsert_failed"])
    ELSE FinalUpsert(c, sc, outcome, t, lead, dd, base_record, res1,
                     MergedRecord(c, dd, outcome, res1.record, now_local_str(t)))

\* a base_record that is pending for every lead, duplicate or not
BaseRecordAlwaysPending(c, lead, dd, now_ts) ==
    DictOf(<<
        <<Strip(c.COL_TIMESTAMP), now_ts>>, <<Strip(c.COL_NAME), lead.name>>,
        <<Strip(c.COL_WAMID), lead.wamid>>,
        <<Strip(c.COL_STATUS_EMAIL), "pending">> >>)

\* step 3: base_record
BaseRecord(c, lead, dd, now_ts) ==
    DictOf(<<
        <<Strip(c.COL_TIMESTAMP), now_ts>>, <<Strip(c.COL_NAME), lead.name>>,
        <<Strip(c.COL_PHONE), lead.phone>>, <<Strip(c.COL_EMAIL), lead.email>>,
        <<Strip(c.COL_MESSAGE), lead.message>>,
        <<Strip(c.COL_SOURCE), Or2(lead.source, "whatsapp")>>,
        <<Strip(c.COL_WAMID), lead.wamid>>,
        <<Strip(c.COL_STATUS_EMAIL), IF dd.is_dup THEN "skipped" ELSE "pending">> >>)

\* step 3: the provisional upsert
ProvisionalUpsert(sh, c, sc, outcome, t, lead, dd, base_record) ==
    AfterProvisional(c, sc, outcome, t, lead, dd, base_record,
                     upsert_by_wamid(sh, c, base_record, TRUE, sc.provisional, t))

\* a run that ends with an error when its dedupe lookup failed
AfterDedupeFailFast(sh, c, sc, outcome, t, lead, dd) ==
    IF dd.failed
    THEN RunSeen(sh, lead, "dedupe", dd, NoUpsert, "none", NoUpsert,
                 [ok |-> FALSE, status |-> "error", error |-> "dedupe_failed"])
    ELSE ProvisionalUpsert(sh, c, sc, outcome, t, lead, dd,
                           BaseRecord(c, lead, dd, now_local_str(t)))

\* steps 2 and 3, once the dedupe check has answered
AfterDedupe(sh, c, sc, outcome, t, lead, dd) ==
    ProvisionalUpsert(sh, c, sc, outcome, t, lead, dd,
                      BaseRecord(c, lead, dd, now_local_str(t)))

\* a run that goes on to the dedupe check whatever the lead holds
AfterExtractUnvalidated(sh, c, sc, outcome, t, lead) ==
    IF lead.raised
    THEN RunSeen(sh, lead, "extract", NoDedupe, NoUpsert, "none", NoUpsert,
                 [ok |-> FALSE, status |-> "error", error |-> "extract_failed"])
    ELSE AfterDedupe(sh, c, sc, outcome, t, lead, DedupeCheck(sh, c, lead, sc.dedupe))

\* step 1: validation of the extracted lead; then the dedupe check
AfterExtract(sh, c, sc, outcome, t, lead) ==
    IF lead.raised
    THEN RunSeen(sh, lead, "extract", NoDedupe, NoUpsert, "none", NoUpsert,
                 [ok |-> FALSE, status |-> "error", error |-> "extract_failed"])
    ELSE IF ~(Truthy(lead.wamid) \/ Truthy(lead.phone) \/ Truthy(lead.name))
    THEN RunSeen(sh, lead, "validate", NoDedupe, NoUpsert, "none", NoUpsert,
                 [ok |-> FALSE, status |-> "error", error |-> "invalid_payload"])
    ELSE AfterDedupe(sh, c, sc, outcome, t, lead, DedupeCheck(sh, c, lead, sc.dedupe))

\* process_incoming(payload).  sc names the store calls that fail in each
\* phase; outcome is what send_lead_email does when called: "sent" (True),
\* "false" (False) or "raise".
process_incoming(sh, c, payload, sc, outcome, t) ==
    AfterExtract(sh, c, sc, outcome, t, extract_from_webhook(payload))

(***************************************************************************)
(* Configurations and inputs of the model.                                 *)
(***************************************************************************)
\* the defaults of the environment reads: _colnames(), _flag("DEDUPE_BY_WAMID", 1),
\* _env("IMMUTABLE_COLS", "")
CfgDefault ==
    [COL_TIMESTAMP |-> "timestamp", COL_NAME |-> "name", COL_PHONE |-> "phone",
     COL_EMAIL |-> "email", COL_MESSAGE |-> "message", COL_SOURCE |-> "source",
     COL_WAMID |-> "wamid", COL_STATUS_EMAIL |-> "status_email",
     COL_UPDATED_AT |-> "updated_at",
     DEDUPE_BY_WAMID |-> "1", IMMUTABLE_COLS |-> <<>>]

\* IMMUTABLE_COLS=notes,Timestamp,updated_at
CfgImmutable == [CfgDefault EXCEPT !.IMMUTABLE_COLS = <<"notes", "Timestamp", "updated_at">>]

\* COL_TIMESTAMP=Timestamp, COL_UPDATED_AT=Updated_At: the names as the header
\* row of the sheet spells them
CfgMixedCase == [CfgDefault EXCEPT !.COL_TIMESTAMP = "Timestamp", !.COL_UPDATED_AT = "Updated_At"]

\* DEDUPE_BY_WAMID=0
CfgNoDedupe == [CfgDefault EXCEPT !.DEDUPE_BY_WAMID = "0"]

Configs == {CfgDefault, CfgImmutable, CfgMixedCase, CfgNoDedupe}

\* the header row a sheet set up for configuration c starts with
InitHeader(c) ==
    [i \in 1..Width |->
        CASE DefaultHeader[i] = "timestamp" -> c.COL_TIMESTAMP
          [] DefaultHeader[i] = "updated_at" -> c.COL_UPDATED_AT
          [] DefaultHeader[i] = "wamid" -> c.COL_WAMID
          [] OTHER -> DefaultHeader[i]]

\* keys a caller of upsert_by_wamid passes: plain keys, a key with a leading
\* blank, the text of the key column's header cell, no key
UpsertKeys == {"k1", " k1", "k2", "wamid", None}

\* a full record, as a caller builds it at time t; its message quotes key k1
FullRecord(key, t) ==
    <<<<"timestamp", now_local_str(t)>>, <<"name", "Ann">>, <<"message", "k1">>,
      <<"wamid", key>>, <<"status_email", "pending">>>>

\* a record with a subset of the columns: a status update with its own
\* update time and a value for the notes column
SubsetRecord(key, t) ==
    <<<<"wamid", key>>, <<"status_email", "sent">>,
      <<"updated_at", now_local_str(t)>>, <<"notes", "n">>>>

Call(rec, preserve_timestamp, faults) ==
    [rec |-> rec, preserve_timestamp |-> preserve_timestamp, faults |-> faults]

\* the calls of upsert_by_wamid made at time t
UpsertCalls(t) ==
    {Call(FullRecord(k, t), TRUE, {}) : k \in UpsertKeys}
    \cup {Call(SubsetRecord("k1", t), TRUE, {})}
    \cup {Call(FullRecord("k1", t), FALSE, {})}
    \cup {Call(FullRecord(k, t), TRUE, {"findall"}) : k \in {"k1", "wamid"}}
    \cup {Call(FullRecord("k1", t), TRUE, f) : f \in {{"findall", "col_values"}, {"cell"}}}

Message(id, body) ==
    [shape |-> "message", id |-> id, from |-> "+55 11", name |-> "Ann", body |-> body]

\* the store calls that fail in each phase of one pipeline run
Scenario(dedupe, provisional, final) ==
    [dedupe |-> dedupe, provisional |-> provisional, final |-> final]

NoFaults == Scenario({}, {}, {})

Scenarios ==
    {NoFaults,
     Scenario({"open"}, {}, {}),
     Scenario({}, {"open"}, {}),
     Scenario({}, {"findall", "col_values"}, {}),
     Scenario({}, {"cell"}, {}),
     Scenario({}, {}, {"open"})}

Delivery(payload, sc, outcome) == [payload |-> payload, sc |-> sc, outcome |-> outcome]

\* the deliveries: one event under every fault scenario, the same event with
\* the notifier answering False, an event whose body quotes another event's key, an
\* event whose key is the text of the key column's header cell
ProcessCalls ==
    {Delivery(Message("k1", "hi"), sc, "sent") : sc \in Scenarios}
    \cup {Delivery(Message("k1", "hi"), NoFaults, "false")}
    \cup {Delivery(Message(k, "k1"), NoFaults, "sent") : k \in {"k2", "wamid"}}

(***************************************************************************)
(* The state machine.                                                      *)
(***************************************************************************)
\* the workers that may run upserts at the same time
Workers == {"w1", "w2"}

\* a worker that is not in a call
Idle == [pc |-> "idle"]

Init ==
    /\ cfg \in Configs
    /\ sheet = <<InitHeader(cfg)>>
    /\ clock = 1
    /\ hist = <<>>
    /\ inflight = [w \in Workers |-> Idle]

\* time passes between calls (the clock starts with the first call)
Tick ==
    /\ hist # <<>>
    /\ clock < Len(TimeStr)
    /\ clock' = clock + 1
    /\ UNCHANGED <<cfg, sheet, hist, inflight>>

\* one call of upsert_by_wamid(record, preserve_timestamp)
Upsert ==
    /\ Len(hist) < MaxCalls
    /\ \E call \in UpsertCalls(clock) :
        \E ans \in {upsert_by_wamid(sheet, cfg, call.rec, call.preserve_timestamp,
                                    call.faults, clock)} :
            /\ sheet' = ans.sheet
            /\ hist' = Append(hist,
                   [op |-> "upsert", t |-> clock, before |-> sheet, after |-> ans.sheet,
                    rec |-> call.rec, preserve_timestamp |-> call.preserve_timestamp,
                    faults |-> call.faults, raised |-> ans.raised, error |-> ans.error,
                    path |-> ans.path, row |-> ans.row, created |-> ans.created,
                    writes |-> ans.writes, appended |-> ans.appended,
                    relookup |-> ans.relookup, record |-> ans.record])
    /\ UNCHANGED <<cfg, clock, inflight>>

\* one run of process_incoming(payload)
Process ==
    /\ Len(hist) < MaxCalls
    /\ \E call \in ProcessCalls :
        \E run \in {process_incoming(sheet, cfg, call.payload, call.sc, call.outcome, clock)} :
            /\ sheet' = run.sheet
            /\ hist' = Append(hist,
                   [op |-> "process", t |-> clock, before |-> sheet, after |-> run.sheet,
                    payload |-> call.payload, sc |-> call.sc, outcome |-> call.outcome,
                    lead |-> run.lead, reached |-> run.reached, dedupe |-> run.dedupe,
                    provisional |-> run.provisional, notifier |-> run.notifier,
                    final |-> run.final, result |-> run.result])
    /\ UNCHANGED <<cfg, clock, inflight>>

Next == Tick \/ Upsert \/ Process

Spec == Init /\ [][Next]_vars

(***************************************************************************)
(* The pipeline on its own: deliveries of webhook events one after         *)
(* another, with every kind of event, notifier outcome and store failure.  *)
(***************************************************************************)
\* payloads: an event with a key, one with phone and name but no id, one with
\* nothing usable, one without "entry", one whose "changes" is an empty list
Event(shape, id, from, name) ==
    [shape |-> shape, id |-> id, from |-> from, name |-> name, body |-> "hi"]

KeyedEvent == Event("message", "k1", "+55 11", "Ann")
OtherEvent == Event("message", "k2", "+55 11", "Ann")
KeylessEvent == Event("message", None, "+55 11", "Ann")
BlankEvent == Event("message", None, None, " ")
NoEntryEvent == Event("no_entry", None, None, None)
EmptyChangesEvent == Event("empty_changes", None, None, None)
NoChangesEvent == Event("no_changes", None, None, None)
NoValueEvent == Event("no_value", None, None, None)
NoMessagesEvent == Event("no_messages", None, None, "Ann")

\* the store calls that fail in the dedupe check, in the provisional upsert
\* and in the final upsert of the deliveries of the keyed event
PipelineScenarios ==
    {Scenario(f, {}, {}) : f \in {{"open"}, {"findall"}, {"row_values"}, {"cell"}}}
    \cup {Scenario({}, f, {}) : f \in {{"open"}, {"append_row"}, {"update"}}}
    \cup {Scenario({"open"}, {"open"}, {})}
    \cup {Scenario({}, {}, f) : f \in {{"open"}, {"update2"}, {"findall", "col_values"}}}

PipelineCalls ==
    {Delivery(KeyedEvent, NoFaults, o) : o \in {"sent", "false", "raise"}}
    \cup {Delivery(KeyedEvent, sc, "sent") : sc \in PipelineScenarios}
    \cup {Delivery(KeyedEvent, Scenario({}, {}, {"open"}), "false")}
    \cup {Delivery(e, NoFaults, "sent") :
            e \in {OtherEvent, KeylessEvent, BlankEvent, NoEntryEvent, EmptyChangesEvent,
                   NoChangesEvent, NoValueEvent, NoMessagesEvent}}
    \cup {Delivery(BlankEvent, Scenario({"open"}, {"open"}, {"open"}), "sent")}

InitPipeline ==
    /\ cfg \in {CfgDefault, CfgNoDedupe}
    /\ sheet = <<InitHeader(cfg)>>
    /\ clock = 1
    /\ hist = <<>>
    /\ inflight = [w \in Workers |-> Idle]

\* one delivery: POST /webhook hands the payload to process_incoming
Deliver ==
    /\ Len(hist) < MaxDeliveries
    /\ \E call \in PipelineCalls :
        \E run \in {process_incoming(sheet, cfg, call.payload, call.sc, call.outcome, clock)} :
            /\ sheet' = run.sheet
            /\ hist' = Append(hist,
                   [op |-> "process", t |-> clock, before |-> sheet, after |-> run.sheet,
                    payload |-> call.payload, sc |-> call.sc, outcome |-> call.outcome,
                    lead |-> run.lead, reached |-> run.reached, dedupe |-> run.dedupe,
                    provisional |-> run.provisional, notifier |-> run.notifier,
                    final |-> run.final, result |-> run.result])
    /\ UNCHANGED <<cfg, clock, inflight>>

NextPipeline == Deliver

SpecPipeline == InitPipeline /\ [][NextPipeline]_vars

(***************************************************************************)
(* Upserts under a renamed key column: COL_WAMID names the column, and a   *)
(* record may carry its key as "wamid" or under that name.                 *)
(***************************************************************************)
\* COL_WAMID=message_id
CfgAlias == [CfgDefault EXCEPT !.COL_WAMID = "message_id"]

\* COL_WAMID=WAMID
CfgUpperKey == [CfgDefault EXCEPT !.COL_WAMID = "WAMID"]

\* a field a record does not have
Absent == "<absent>"

\* a record with value lit under "wamid" and value ali under the name
\* COL_WAMID gives, each left out when Absent
KeyedRecord(c, lit, ali) ==
    (IF lit = Absent THEN <<>> ELSE <<<<"wamid", lit>>>>)
    \o (IF ali = Absent THEN <<>> ELSE <<<<Strip(c.COL_WAMID), ali>>>>)
    \o <<<<"name", "Ann">>>>

AliasCalls(c) ==
    {Call(KeyedRecord(c, lit, ali), TRUE, {}) :
        lit \in {Absent, None, "", " ", "k1"}, ali \in {Absent, "", "k1"}}
    \cup {Call(KeyedRecord(c, Absent, None), TRUE, {}),
          Call(KeyedRecord(c, Absent, Absent), TRUE, {"open"})}

InitAlias ==
    /\ cfg \in {CfgAlias, CfgUpperKey}
    /\ sheet = <<InitHeader(cfg)>>
    /\ clock = 1
    /\ hist = <<>>
    /\ inflight = [w \in Workers |-> Idle]

\* one call of upsert_by_wamid(record) under the renamed key column
UpsertAliased ==
    /\ Len(hist) < MaxAliasCalls
    /\ \E call \in AliasCalls(cfg) :
        \E ans \in {upsert_by_wamid(sheet, cfg, call.rec, call.preserve_timestamp,
                                    call.faults, clock)} :
            /\ sheet' = ans.sheet
            /\ hist' = Append(hist,
                   [op |-> "upsert", t |-> clock, before |-> sheet, after |-> ans.sheet,
                    rec |-> call.rec, preserve_timestamp |-> call.preserve_timestamp,
                    faults |-> call.faults, raised |-> ans.raised, error |-> ans.error,
                    path |-> ans.path, row |-> ans.row, created |-> ans.created,
                    writes |-> ans.writes, appended |-> ans.appended,
                    relookup |-> ans.relookup, record |-> ans.record])
    /\ UNCHANGED <<cfg, clock, inflight>>

NextAlias == UpsertAliased

SpecAlias == InitAlias /\ [][NextAlias]_vars

(***************************************************************************)
(* POST /webhook: the route of app.py and receive() of the blueprint of    *)
(* scripts/webhook.py.  A request body is text that is no JSON, a JSON     *)
(* value that is falsy (null, {}, [], 0, ""), a JSON value that is truthy  *)
(* and no object ([1], "x", 5), or a JSON object.                          *)
(***************************************************************************)
\* payload is what the body parses to when its kind is "object"
Body(kind, payload) == [kind |-> kind, payload |-> payload]

NotObject == Event("not_object", None, None, None)

\* (request.get_json(...) or {}) of a body that parsed, or was taken as None
JsonOrEmpty(body) ==
    CASE body.kind = "object" -> body.payload
      [] body.kind = "not_object" -> NotObject
      [] OTHER -> NoEntryEvent

\* what a handler did: the HTTP status, the body of the response, and the run
\* of process_incoming it made (reached "none" when it made none)
Answer(code, response, sheet_after, reached) ==
    [code |-> code, response |-> response, sheet |-> sheet_after, reached |-> reached]

\* the page Flask answers when a view raises
InternalServerError == [html |-> "500 Internal Server Error"]

AnswerRun(run) == Answer(200, run.result, run.sheet, run.reached)

\* webhook() of app.py on POST: get_json(force=True, silent=True) or {}, then
\* process_incoming; its except branch answers 500, and is taken only when
\* process_incoming raises, which it does on no payload
webhook(sh, c, body, sc, outcome, t) ==
    AnswerRun(process_incoming(sh, c, JsonOrEmpty(body), sc, outcome, t))

\* receive() of scripts/webhook.py: get_json(force=True, silent=False) or {}
\* in a try of its own; then list(data.keys()), outside every try; then
\* handle_incoming_message(data) in the second try
receive(sh, c, body, sc, outcome, t) ==
    IF body.kind = "invalid_json"
    THEN Answer(200, [ok |-> FALSE, error |-> "invalid_json"], sh, "none")
    ELSE IF body.kind = "not_object"
    THEN Answer(500, InternalServerError, sh, "none")
    ELSE AnswerRun(process_incoming(sh, c, JsonOrEmpty(body), sc, outcome, t))

Request(body, sc, outcome) == [body |-> body, sc |-> sc, outcome |-> outcome]

Requests ==
    {Request(Body("object", e), NoFaults, "sent") :
        e \in {KeyedEvent, KeylessEvent, BlankEvent, EmptyChangesEvent}}
    \cup {Request(Body("object", KeyedEvent), NoFaults, "raise"),
          Request(Body("object", KeyedEvent), Scenario({}, {"open"}, {}), "sent"),
          Request(Body("object", KeyedEvent), Scenario({}, {}, {"open"}), "sent")}
    \cup {Request(Body(k, NotObject), NoFaults, "sent") :
            k \in {"invalid_json", "falsy", "not_object"}}

InitWebhook ==
    /\ cfg = CfgDefault
    /\ sheet = <<InitHeader(cfg)>>
    /\ clock = 1
    /\ hist = <<>>
    /\ inflight = [w \in Workers |-> Idle]

Posted(handler, req, ans) ==
    [op |-> "post", handler |-> handler, t |-> clock, before |-> sheet, after |-> ans.sheet,
     body |-> req.body, sc |-> req.sc, outcome |-> req.outcome,
     code |-> ans.code, response |-> ans.response, reached |-> ans.reached]

\* POST /webhook served by app.py
PostApp ==
    /\ Len(hist) < MaxPosts
    /\ \E req \in Requests :
        \E ans \in {webhook(sheet, cfg, req.body, req.sc, req.outcome, clock)} :
            /\ sheet' = ans.sheet
            /\ hist' = Append(hist, Posted("app", req, ans))
    /\ UNCHANGED <<cfg, clock, inflight>>

\* POST /webhook served by the blueprint
PostBlueprint ==
    /\ Len(hist) < MaxPosts
    /\ \E req \in Requests :
        \E ans \in {receive(sheet, cfg, req.body, req.sc, req.outcome, clock)} :
            /\ sheet' = ans.sheet
            /\ hist' = Append(hist, Posted("blueprint", req, ans))
    /\ UNCHANGED <<cfg, clock, inflight>>

NextWebhook == PostApp \/ PostBlueprint

SpecWebhook == InitWebhook /\ [][NextWebhook]_vars

(***************************************************************************)
(* Row insertion: upsert_by_wamid and append_by_header, one call after     *)
(* another, with records that map to some, one or no column of the header. *)
(***************************************************************************)
\* a record without a key, and one whose only field matches no header
NameOnlyRecord == <<<<"name", "Ann">>>>
UnmappedRecord == <<<<"nickname", "Ann">>>>

\* a record whose fields are spelled in mixed case, one of them unmapped
MixedCaseRecord(key) ==
    <<<<"WAMID", key>>, <<"Timestamp", "t1">>, <<"nickname", "Ann">>>>

\* a record with its key, a field spelled in mixed case, a field without a
\* value and a field that matches no header
LooseRecord(key) ==
    <<<<"nickname", "Ann">>, <<"wamid", key>>, <<"Timestamp", "t1">>, <<"email", None>>>>

InsertFaults ==
    {{}, {"findall", "col_values"}, {"findall", "col_values", "get_all_values"}}

InsertUpsertCalls(t) ==
    {Call(FullRecord(k, t), TRUE, {}) : k \in {"k1", "k2"}}
    \cup {Call(FullRecord("k1", t), TRUE, f) : f \in InsertFaults}
    \cup {Call(SubsetRecord("k2", t), TRUE, {}), Call(LooseRecord("k2"), TRUE, {})}

AppendCalls(t) ==
    {Call(FullRecord(k, t), TRUE, {}) : k \in {"k1", "k2"}}
    \cup {Call(r, TRUE, {}) : r \in {NameOnlyRecord, UnmappedRecord, MixedCaseRecord("k1")}}
    \cup {Call(NameOnlyRecord, TRUE, {"get_all_values"})}

InitInsert ==
    /\ cfg = CfgDefault
    /\ sheet = <<InitHeader(cfg)>>
    /\ clock = 1
    /\ hist = <<>>
    /\ inflight = [w \in Workers |-> Idle]

Called(op, call, ans) ==
    [op |-> op, t |-> clock, before |-> sheet, after |-> ans.sheet,
     rec |-> call.rec, preserve_timestamp |-> call.preserve_timestamp,
     faults |-> call.faults, raised |-> ans.raised, error |-> ans.error,
     path |-> ans.path, row |-> ans.row, created |-> ans.created,
     writes |-> ans.writes, appended |-> ans.appended,
     relookup |-> ans.relookup, record |-> ans.record]

\* one call of upsert_by_wamid(record)
InsertUpsert ==
    /\ Len(hist) < MaxInserts
    /\ \E call \in InsertUpsertCalls(clock) :
        \E ans \in {upsert_by_wamid(sheet, cfg, call.rec, call.preserve_timestamp,
                                    call.faults, clock)} :
            /\ sheet' = ans.sheet
            /\ hist' = Append(hist, Called("upsert", call, ans))
    /\ UNCHANGED <<cfg, clock, inflight>>

\* one call of append_by_header(record)
AppendOnly ==
    /\ Len(hist) < MaxInserts
    /\ \E call \in AppendCalls(clock) :
        \E ans \in {append_by_header(sheet, cfg, call.rec, call.faults)} :
            /\ sheet' = ans.sheet
            /\ hist' = Append(hist, Called("append", call, ans))
    /\ UNCHANGED <<cfg, clock, inflight>>

NextInsert == InsertUpsert \/ AppendOnly

SpecInsert == InitInsert /\ [][NextInsert]_vars

(***************************************************************************)
(* process_incoming step by step: one action per step of the call chain,   *)
(* the locals of the run kept in inflight["w1"], and one entry of hist per *)
(* step executed.  A step that returns from process_incoming carries the   *)
(* result it returned.                                                     *)
(***************************************************************************)
StepCalls ==
    {Delivery(KeyedEvent, NoFaults, o) : o \in {"sent", "raise"}}
    \cup {Delivery(KeyedEvent, sc, "sent") :
            sc \in {Scenario({"open"}, {}, {}), Scenario({}, {"open"}, {}),
                    Scenario({}, {}, {"open"})}}
    \cup {Delivery(e, NoFaults, "sent") : e \in {KeylessEvent, BlankEvent, EmptyChangesEvent}}

\* the locals of a run about to extract
StartLocals(n, call) ==
    [pc |-> "extract", run |-> n, payload |-> call.payload, sc |-> call.sc,
     outcome |-> call.outcome, lead |-> <<>>, dd |-> NoDedupe, base_record |-> <<>>,
     res1 |-> NoUpsert, merged_record |-> <<>>, res2 |-> NoUpsert]

\* a run that calls the notifier straight after its dedupe check
StepAfterNotifierFirst(step, failed) ==
    CASE step = "extract" -> IF failed THEN "idle" ELSE "validate"
      [] step = "validate" -> IF failed THEN "idle" ELSE "dedupe"
      [] step = "dedupe" -> "notify"
      [] step = "notify" -> "final"
      [] step = "final" -> "result"
      [] OTHER -> "idle"

\* the step that follows a step of process_incoming: a failure of extract,
\* validate or the provisional upsert returns; the others go on
StepAfter(step, failed) ==
    CASE step = "extract" -> IF failed THEN "idle" ELSE "validate"
      [] step = "validate" -> IF failed THEN "idle" ELSE "dedupe"
      [] step = "dedupe" -> "provisional"
      [] step = "provisional" -> IF failed THEN "idle" ELSE "notify"
      [] step = "notify" -> "final"
      [] step = "final" -> "result"
      [] OTHER -> "idle"

Stepped(L, step, failed, sheet_after, called, result) ==
    [op |-> "step", run |-> L.run, step |-> step, failed |-> failed,
     returned |-> StepAfter(step, failed) = "idle", before |-> sheet,
     after |-> sheet_after, called |-> called, result |-> result]

\* what a step that goes on to the next one has to return
NoResult == [status |-> "none"]

RunsBegun == Cardinality({i \in 1..Len(hist) : hist[i].step = "extract"})

InitSteps ==
    /\ cfg = CfgDefault
    /\ sheet = <<InitHeader(cfg)>>
    /\ clock = 1
    /\ hist = <<>>
    /\ inflight = [w \in Workers |-> Idle]

\* the step taken leaves the locals L2 and the entry e
Take(L2, e) ==
    /\ inflight' = [inflight EXCEPT !["w1"] =
                        IF StepAfter(e.step, e.failed) = "idle" THEN Idle
                        ELSE [L2 EXCEPT !.pc = StepAfter(e.step, e.failed)]]
    /\ hist' = Append(hist, e)
    /\ sheet' = e.after
    /\ UNCHANGED <<cfg, clock>>

\* POST /webhook calls process_incoming(payload)
StartRun ==
    /\ inflight["w1"].pc = "idle"
    /\ RunsBegun < MaxStepRuns
    /\ \E call \in StepCalls :
        inflight' = [inflight EXCEPT !["w1"] = StartLocals(RunsBegun + 1, call)]
    /\ UNCHANGED <<cfg, sheet, clock, hist>>

\* 1) lead = _extract_from_webhook(payload)
StepExtract ==
    /\ inflight["w1"].pc = "extract"
    /\ \E lead \in {extract_from_webhook(inflight["w1"].payload)} :
        Take([inflight["w1"] EXCEPT !.lead = lead],
             Stepped(inflight["w1"], "extract", lead.raised, sheet, FALSE,
                     IF lead.raised THEN ErrorResult("extract_failed") ELSE NoResult))

\* the check that the lead has a key, a phone or a name
StepValidate ==
    /\ inflight["w1"].pc = "validate"
    /\ \E bad \in {~(Truthy(inflight["w1"].lead.wamid) \/ Truthy(inflight["w1"].lead.phone)
                       \/ Truthy(inflight["w1"].lead.name))} :
        Take(inflight["w1"],
             Stepped(inflight["w1"], "validate", bad, sheet, FALSE,
                     IF bad THEN ErrorResult("invalid_payload") ELSE NoResult))

\* 2) the dedupe check
StepDedupe ==
    /\ inflight["w1"].pc = "dedupe"
    /\ \E dd \in {DedupeCheck(sheet, cfg, inflight["w1"].lead, inflight["w1"].sc.dedupe)} :
        Take([inflight["w1"] EXCEPT !.dd = dd],
             Stepped(inflight["w1"], "dedupe", dd.failed, sheet, FALSE, NoResult))

\* 3) base_record and the provisional upsert
StepProvisional ==
    /\ inflight["w1"].pc = "provisional"
    /\ \E base \in {BaseRecord(cfg, inflight["w1"].lead, inflight["w1"].dd,
                                now_local_str(clock))} :
        \E res1 \in {upsert_by_wamid(sheet, cfg, base, TRUE,
                                     inflight["w1"].sc.provisional, clock)} :
            Take([inflight["w1"] EXCEPT !.base_record = base, !.res1 = res1],
                 Stepped(inflight["w1"], "provisional", res1.raised, res1.sheet, FALSE,
                         IF res1.raised THEN ErrorResult("sheets_upsert_failed")
                         ELSE NoResult))

\* 4) send_lead_email, or the skip of a duplicate
StepNotify ==
    /\ inflight["w1"].pc = "notify"
    /\ Take(inflight["w1"],
            Stepped(inflight["w1"], "notify",
                    EmailStatus(inflight["w1"].dd, inflight["w1"].outcome) = "error",
                    sheet, ~inflight["w1"].dd.is_dup, NoResult))

\* 5) merged_record and the final upsert
StepFinal ==
    /\ inflight["w1"].pc = "final"
    /\ \E merged \in {MergedRecord(cfg, inflight["w1"].dd, inflight["w1"].outcome,
                                    inflight["w1"].res1.record, now_local_str(clock))} :
        \E res2 \in {upsert_by_wamid(inflight["w1"].res1.sheet, cfg, merged, TRUE,
                                     inflight["w1"].sc.final, clock)} :
            Take([inflight["w1"] EXCEPT !.merged_record = merged, !.res2 = res2],
                 Stepped(inflight["w1"], "final", res2.raised, res2.sheet, FALSE, NoResult))

\* 6) the result dict
StepResult ==
    /\ inflight["w1"].pc = "result"
    /\ \E run \in {Respond(inflight["w1"].lead, inflight["w1"].dd, inflight["w1"].outcome,
                            inflight["w1"].base_record, inflight["w1"].res1,
                            inflight["w1"].merged_record, inflight["w1"].res2)} :
        Take(inflight["w1"],
             Stepped(inflight["w1"], "result", FALSE, sheet, FALSE, run.result))

NextSteps ==
    \/ StartRun
    \/ StepExtract
    \/ StepValidate
    \/ StepDedupe
    \/ StepProvisional
    \/ StepNotify
    \/ StepFinal
    \/ StepResult

SpecSteps == InitSteps /\ [][NextSteps]_vars

(***************************************************************************)
(* Overlapping upserts.  Nothing serialises two calls of upsert_by_wamid:  *)
(* between the key lookup of a call and its write, other calls may look up *)
(* and write.  A call is two steps: the lookup, then everything after it.  *)
(***************************************************************************)
\* the keys of the overlapping calls
OverlapKeys == {"k1", "k2"}

InitOverlap ==
    /\ cfg = CfgDefault
    /\ sheet = <<InitHeader(cfg)>>
    /\ clock = 1
    /\ hist = <<>>
    /\ inflight = [w \in Workers |-> Idle]

\* the calls begun so far: those finished and those in flight
Begun == Len(hist) + Cardinality({w \in Workers : inflight[w].pc # "idle"})

\* worker w enters upsert_by_wamid(record) and runs the key lookup
BeginUpsert(w) ==
    /\ inflight[w].pc = "idle"
    /\ Begun < MaxOverlapCalls
    /\ \E k \in OverlapKeys :
        \E found \in {find_row_by_wamid(sheet, cfg, k, {})} :
            inflight' = [inflight EXCEPT ![w] =
                            [pc |-> "looked", rec |-> FullRecord(k, clock),
                             found |-> found.row, looked_after |-> Len(hist)]]
    /\ UNCHANGED <<cfg, sheet, clock, hist>>

\* worker w runs the rest of its call, on the sheet as it is now
FinishUpsert(w) ==
    /\ inflight[w].pc = "looked"
    /\ \E ans \in {WriteAfterLookup(sheet, cfg, inflight[w].rec, inflight[w].found,
                                     TRUE, {}, clock)} :
        /\ sheet' = ans.sheet
        /\ hist' = Append(hist,
               [op |-> "upsert", t |-> clock, before |-> sheet, after |-> ans.sheet,
                rec |-> inflight[w].rec, preserve_timestamp |-> TRUE,
                faults |-> {}, raised |-> ans.raised, error |-> ans.error,
                path |-> ans.path, row |-> ans.row, created |-> ans.created,
                writes |-> ans.writes, appended |-> ans.appended,
                relookup |-> ans.relookup, record |-> ans.record,
                worker |-> w, found |-> inflight[w].found,
                looked_after |-> inflight[w].looked_after])
    /\ inflight' = [inflight EXCEPT ![w] = Idle]
    /\ UNCHANGED <<cfg, clock>>

NextOverlap == \E w \in Workers : BeginUpsert(w) \/ FinishUpsert(w)

SpecOverlap == InitOverlap /\ [][NextOverlap]_vars

(***************************************************************************)
(* Overlapping pipeline runs.  Nothing serialises two runs of              *)
(* process_incoming: each store call of a run may fall between the store   *)
(* calls of another.  A run is taken in steps: the extraction, validation  *)
(* and dedupe check; then, for the provisional and for the final upsert,   *)
(* the key lookup, the write (an append or the update of the located row)  *)
(* and, after an append, the lookup of the appended row.  Every store call *)
(* answers.                                                                *)
(***************************************************************************)
\* the deliveries that may overlap: one event delivered over and over and an
\* event of another key
OverlapRunCalls ==
    {Delivery(e, NoFaults, "sent") : e \in {KeyedEvent, OtherEvent}}

\* step 4: send_lead_email is called unless the dedupe check found the key
NotifierCalledWhenCreated(dd, res1) == ~dd.is_dup /\ res1.created

NotifierCalled(dd, res1) == ~dd.is_dup

\* a key lookup as a run made it: the rows of the key on the sheet it read
\* and the row it answered
LookupSeen(sh, wamid, row) ==
    [seen |-> {r \in 2..Len(sh) : sh[r][header_index_map(sh)["wamid"] + 1] = wamid},
     row |-> row]

\* the locals of a run that is about to make its provisional upsert
RunLocals(n, call, lead, dd, base) ==
    [pc |-> "lookup", run |-> n, payload |-> call.payload, outcome |-> call.outcome,
     before |-> sheet, lead |-> lead, dd |-> dd, phase |-> "provisional",
     rec |-> base, found |-> NotFound, base_record |-> base, res1 |-> NoUpsert,
     merged_record |-> <<>>, res2 |-> NoUpsert, notified |-> FALSE,
     lookups |-> IF dd.looked THEN <<LookupSeen(sheet, lead.wamid, dd.row_idx)>> ELSE <<>>,
     appended_at |-> 0]

\* the entry a run leaves in the history when it returns
RunEnded(w, L, run) ==
    [op |-> "process", t |-> clock, before |-> L.before, after |-> sheet,
     payload |-> L.payload, sc |-> NoFaults, outcome |-> L.outcome,
     lead |-> run.lead, reached |-> run.reached, dedupe |-> run.dedupe,
     provisional |-> run.provisional,
     notifier |-> IF L.notified THEN L.outcome ELSE "none",
     final |-> run.final, result |-> run.result,
     worker |-> w, run |-> L.run, lookups |-> L.lookups, appended_at |-> L.appended_at]

RunsStarted ==
    Len(hist) + Cardinality({w \in Workers : inflight[w].pc # "idle"})

InitOverlapRuns ==
    /\ cfg = CfgDefault
    /\ sheet = <<InitHeader(cfg)>>
    /\ clock = 1
    /\ hist = <<>>
    /\ inflight = [w \in Workers |-> Idle]

\* the run of worker w returns
Return(w, L, run) ==
    /\ \E ended \in {run} : hist' = Append(hist, RunEnded(w, L, ended))
    /\ inflight' = [inflight EXCEPT ![w] = Idle]

\* the upsert of worker w has answered ans.  The provisional one ends the
\* run when it raised; otherwise step 4 (the notifier) and merged_record
\* follow, and the final upsert is next.  After the final one the run returns
\* its result.  (Steps 4 and 6 touch nothing the other worker reads.)
UpsertDone(w, L, ans) ==
    IF L.phase = "provisional"
    THEN IF ans.raised
         THEN Return(w, L, AfterProvisional(cfg, NoFaults, L.outcome, clock, L.lead, L.dd,
                                            L.base_record, ans))
         ELSE /\ \E merged \in {MergedRecord(cfg, L.dd, L.outcome, ans.record,
                                             now_local_str(clock))} :
                    inflight' = [inflight EXCEPT ![w] =
                        [L EXCEPT !.pc = "lookup", !.phase = "final", !.res1 = ans,
                                  !.rec = merged, !.merged_record = merged,
                                  !.notified = NotifierCalled(L.dd, ans)]]
              /\ UNCHANGED hist
    ELSE Return(w, L, Respond(L.lead, L.dd, L.outcome, L.base_record, L.res1,
                              L.merged_record, ans))

\* steps 1 and 2 of a run of worker w: extraction, validation, dedupe check;
\* a delivery goes to the first worker that is idle
BeginRun(w) ==
    /\ inflight[w].pc = "idle"
    /\ \A v \in Workers : inflight[v].pc = "idle" => (v = w \/ w = "w1")
    /\ RunsStarted < MaxOverlapRuns
    /\ \E call \in OverlapRunCalls :
        \E lead \in {extract_from_webhook(call.payload)} :
            IF lead.raised \/ ~(Truthy(lead.wamid) \/ Truthy(lead.phone) \/ Truthy(lead.name))
            THEN \E L \in {RunLocals(RunsStarted + 1, call, lead, NoDedupe, <<>>)} :
                    Return(w, L, AfterExtract(sheet, cfg, NoFaults, call.outcome, clock, lead))
            ELSE \E dd \in {DedupeCheck(sheet, cfg, lead, {})} :
                    /\ inflight' = [inflight EXCEPT ![w] =
                           RunLocals(RunsStarted + 1, call, lead, dd,
                                     BaseRecord(cfg, lead, dd, now_local_str(clock)))]
                    /\ UNCHANGED hist
    /\ UNCHANGED <<cfg, sheet, clock>>

\* the upsert of worker w reads the header and looks its key up
UpsertLookup(w) ==
    /\ inflight[w].pc = "lookup"
    /\ \E wamid_val \in {Strip(OrEmpty(Get(inflight[w].rec, "wamid")))} :
        IF wamid_val = ""
        THEN \E ans \in {UpsertAnswer(sheet, inflight[w].rec, TRUE, "ValueError", "none",
                                      NotFound, FALSE, <<>>, <<>>)} :
                \E L \in {inflight[w]} : UpsertDone(w, L, ans)
        ELSE \E found \in {find_row_by_wamid(sheet, cfg, wamid_val, {})} :
                /\ inflight' = [inflight EXCEPT ![w] =
                       [@ EXCEPT !.pc = "write", !.found = found.row,
                                 !.lookups = Append(@, LookupSeen(sheet, wamid_val, found.row))]]
                /\ UNCHANGED hist
    /\ UNCHANGED <<cfg, sheet, clock>>

\* the upsert of worker w writes: the append of a row when its lookup found
\* none, else the update of the row its lookup found
UpsertWrite(w) ==
    /\ inflight[w].pc = "write"
    /\ IF inflight[w].found = NotFound
       THEN /\ sheet' = append_row(sheet, InsertRowValues(sheet, inflight[w].rec))
            /\ inflight' = [inflight EXCEPT ![w] =
                   [@ EXCEPT !.pc = "relookup", !.appended_at = Len(sheet')]]
            /\ UNCHANGED hist
       ELSE \E ans \in {UpdatePath(sheet, cfg, inflight[w].rec, inflight[w].found,
                                   TRUE, {}, clock)} :
                /\ sheet' = ans.sheet
                /\ \E L \in {inflight[w]} : UpsertDone(w, L, ans)
    /\ UNCHANGED <<cfg, clock>>

\* after its append, the upsert of worker w looks the key up again for the
\* row number it answers
UpsertRelookup(w) ==
    /\ inflight[w].pc = "relookup"
    /\ \E wamid_val \in {Strip(OrEmpty(Get(inflight[w].rec, "wamid")))} :
        \E found \in {find_row_by_wamid(sheet, cfg, wamid_val, {})} :
            \E L \in {[inflight[w] EXCEPT
                          !.lookups = Append(@, LookupSeen(sheet, wamid_val, found.row))]} :
                \E ans \in {[UpsertAnswer(sheet, L.rec, FALSE, "", "insert",
                                          IF found.row # NotFound THEN found.row
                                          ELSE get_all_values_len(sheet),
                                          TRUE, <<>>, InsertRowValues(sheet, L.rec))
                               EXCEPT !.relookup = found.row]} :
                    UpsertDone(w, L, ans)
    /\ UNCHANGED <<cfg, sheet, clock>>

NextOverlapRuns ==
    \E w \in Workers :
        \/ BeginRun(w)
        \/ UpsertLookup(w)
        \/ UpsertWrite(w)
        \/ UpsertRelookup(w)

SpecOverlapRuns == InitOverlapRuns /\ [][NextOverlapRuns]_vars

(***************************************************************************)
(* Updates with failing cell writes: upsert_by_wamid called one time after *)
(* another, ws.update raising at the first or at the second cell written.  *)
(***************************************************************************)
\* a status update that names the status before the key
StatusRecord(key) ==
    <<<<"status_email", "sent">>, <<"wamid", key>>, <<"notes", "n">>>>

UpdateCalls(t) ==
    {Call(FullRecord(k, t), TRUE, {}) : k \in {"k1", "k2"}}
    \cup {Call(StatusRecord(k), TRUE, f) : k \in {"k1", "k2"}, f \in {{}, {"update"}, {"update2"}}}
    \cup {Call(SubsetRecord("k1", t), TRUE, f) : f \in {{}, {"update2"}}}
    \cup {Call(FullRecord("k1", t), FALSE, {"update2"})}

InitUpdate ==
    /\ cfg = CfgDefault
    /\ sheet = <<InitHeader(cfg)>>
    /\ clock = 1
    /\ hist = <<>>
    /\ inflight = [w \in Workers |-> Idle]

\* one call of upsert_by_wamid(record, preserve_timestamp)
UpdateUpsert ==
    /\ Len(hist) < MaxUpdates
    /\ \E call \in UpdateCalls(clock) :
        \E ans \in {upsert_by_wamid(sheet, cfg, call.rec, call.preserve_timestamp,
                                    call.faults, clock)} :
            /\ sheet' = ans.sheet
            /\ hist' = Append(hist, Called("upsert", call, ans))
    /\ UNCHANGED <<cfg, clock, inflight>>

NextUpdate == UpdateUpsert

SpecUpdate == InitUpdate /\ [][NextUpdate]_vars

(***************************************************************************)
(* Header reads: _headers and _header_index_map on sheets whose header row *)
(* has been edited by hand: a name removed, a name of blanks, a name with  *)
(* a leading blank, a name repeated in another letter case.                *)
(***************************************************************************)
\* the columns edited and what an edit leaves in the header cell
EditedCols == {2, 3, 9, 10}
EditedNames == {"", " ", " k1", "WAMID"}

\* the header rows: the default header with up to two cells edited
HeaderRows ==
    {[DefaultHeader EXCEPT ![a] = x, ![b] = y] :
        <<a, b, x, y>> \in EditedCols \X EditedCols \X EditedNames \X EditedNames}
    \cup {DefaultHeader}

InitHeaderReads ==
    /\ cfg = CfgDefault
    /\ sheet \in {<<h>> : h \in HeaderRows}
    /\ clock = 1
    /\ hist = <<>>
    /\ inflight = [w \in Workers |-> Idle]

\* one call of _headers(ws)
ReadHeaders ==
    /\ Len(hist) < MaxHeaderReads
    /\ hist' = Append(hist, [op |-> "headers", before |-> sheet,
                             list |-> headers(sheet), index |-> <<>>])
    /\ UNCHANGED <<cfg, sheet, clock, inflight>>

\* one call of _header_index_map(ws)
ReadHeaderIndex ==
    /\ Len(hist) < MaxHeaderReads
    /\ hist' = Append(hist, [op |-> "header_index", before |-> sheet,
                             list |-> <<>>, index |-> header_index_map(sheet)])
    /\ UNCHANGED <<cfg, sheet, clock, inflight>>

NextHeaderReads == ReadHeaders \/ ReadHeaderIndex

SpecHeaderReads == InitHeaderReads /\ [][NextHeaderReads]_vars

(***************************************************************************)
(* Vocabulary of the properties.                                           *)
(***************************************************************************)
\* the column (1-based) whose header cell, stripped and lower-cased, is name;
\* 0 when the header row has no such column
ColOf(sh, name) ==
    LET cs == {c \in 1..Width : Lower(Strip(sh[1][c])) = name}
    IN  IF cs = {} THEN 0 ELSE Max(cs)

KeyCol(sh) == ColOf(sh, Lower(Strip(cfg.COL_WAMID)))
TsCol(sh) == ColOf(sh, Lower(Strip(cfg.COL_TIMESTAMP)))
UpdCol(sh) == ColOf(sh, Lower(Strip(cfg.COL_UPDATED_AT)))

\* the rows below the header row
DataRows(sh) == 2..Len(sh)

\* the key a record carries, under the literal name or the configured alias
KeyOf(rec) ==
    Strip(OrEmpty(Get(rec, IF HasField(rec, "wamid") THEN "wamid"
                           ELSE Lower(Strip(cfg.COL_WAMID)))))

\* the data rows whose key cell is k once surrounding blanks are stripped
RowsOfKey(sh, k) ==
    {r \in DataRows(sh) : KeyCol(sh) # 0 /\ Strip(sh[r][KeyCol(sh)]) = k}

\* the data rows whose key cell is exactly k
RowsWithKeyCell(sh, k) ==
    {r \in DataRows(sh) : KeyCol(sh) # 0 /\ sh[r][KeyCol(sh)] = k}

\* every call of upsert_by_wamid made by call e of the history: the call
\* itself, or the provisional and the final upsert of a pipeline run
UpsertsOf(e) ==
    IF e.op = "upsert"
    THEN {[given |-> e.rec, preserve_timestamp |-> e.preserve_timestamp, t |-> e.t,
           faults |-> e.faults, before |-> e.before, after |-> e.after,
           raised |-> e.raised, path |-> e.path, row |-> e.row,
           created |-> e.created, writes |-> e.writes, relookup |-> e.relookup]}
    ELSE LET seen(u, f, b) ==
                 [given |-> u.given, preserve_timestamp |-> TRUE, t |-> e.t, faults |-> f,
                  before |-> b, after |-> u.sheet, raised |-> u.raised,
                  path |-> u.path, row |-> u.row, created |-> u.created,
                  writes |-> u.writes, relookup |-> u.relookup]
         IN  (IF e.provisional.called
              THEN {seen(e.provisional, e.sc.provisional, e.before)} ELSE {})
             \cup
             (IF e.final.called
              THEN {seen(e.final, e.sc.final, e.provisional.sheet)} ELSE {})

AllUpserts == UNION {UpsertsOf(hist[i]) : i \in 1..Len(hist)}

Runs == {i \in 1..Len(hist) : hist[i].op = "process"}

(***************************************************************************)
(* C1 (as claimed): upserting the same non-empty key twice in sequence,    *)
(* with every store read answering and a header that has the key column,   *)
(* on a sheet with no row for the key, leaves exactly one row for the key: *)
(* the first call answers created = true, the second created = false with  *)
(* the row number of the first.                                            *)
(* The code breaks it for the key that is the text of the key column's     *)
(* header cell: the first call already takes the update path on row 1.     *)
(***************************************************************************)
C1_UpsertTwiceOneRow ==
    \A i \in 1..(Len(hist) - 1) :
        LET a == hist[i]
            b == hist[i + 1]
        IN  (/\ a.op = "upsert" /\ b.op = "upsert"
             /\ KeyOf(a.rec) # "" /\ KeyOf(b.rec) = KeyOf(a.rec)
             /\ a.faults = {} /\ b.faults = {}
             /\ KeyCol(a.before) # 0
             /\ RowsOfKey(a.before, KeyOf(a.rec)) = {})
            => (/\ ~a.raised /\ a.created
                /\ ~b.raised /\ ~b.created
                /\ b.row = a.row
                /\ Cardinality(RowsOfKey(b.after, KeyOf(a.rec))) = 1)

(***************************************************************************)
(* C2 (as claimed): in every state reached by upsert calls and pipeline    *)
(* runs made one after another, runs in which store calls fail included,   *)
(* at most one data row has a key cell equal to any given key.             *)
(* The code breaks it when both reads of the key lookup fail: the lookup   *)
(* answers "not found" and the upsert appends a second row.                *)
(***************************************************************************)
C2_AtMostOneRowPerKey ==
    \A r1, r2 \in DataRows(sheet) :
        (/\ KeyCol(sheet) # 0
         /\ sheet[r1][KeyCol(sheet)] # ""
         /\ sheet[r1][KeyCol(sheet)] = sheet[r2][KeyCol(sheet)])
        => r1 = r2

\* the notifier was called in run e
Notified(e) == e.notifier # "none"

\* the provisional upsert of run e was made and returned
ProvisionalWrote(e) == e.provisional.called /\ ~e.provisional.raised

\* the delivery status a pipeline upsert carries
StatusGiven(u) == Get(u.given, Strip(cfg.COL_STATUS_EMAIL))

(***************************************************************************)
(* C3 (as claimed): with deduplication enabled and only deliveries made,   *)
(* one after another, the notifier is called on a delivery of a non-empty  *)
(* key exactly when it is the first delivery of that key whose provisional *)
(* write succeeded; so it is called once per key in total.                 *)
(* The code breaks it for the key that is the text of the key column's     *)
(* header cell: the dedupe lookup answers row 1, so the first delivery is  *)
(* treated as a duplicate and nobody is ever notified.                     *)
(***************************************************************************)
C3_NotifiedExactlyOnce ==
    (Flag(cfg.DEDUPE_BY_WAMID) /\ Runs = 1..Len(hist))
    => \A i \in Runs :
          LET k == hist[i].lead.wamid
              first == /\ ProvisionalWrote(hist[i])
                       /\ \A j \in 1..(i - 1) :
                             hist[j].lead.wamid = k => ~ProvisionalWrote(hist[j])
          IN  Truthy(k) => (Notified(hist[i]) <=> first)

(***************************************************************************)
(* C4 (as claimed): a run with deduplication enabled for an event whose    *)
(* key already has a row, whose dedupe lookup answers and whose            *)
(* provisional upsert returns, never calls the notifier, carries status    *)
(* skipped in both upserts, appends no row, and answers status "dedupe",   *)
(* email_status "skipped" and the number of the existing row.              *)
(* The code breaks it when the reads of the upsert's own key lookup fail:  *)
(* the upsert appends a second row for the key.                            *)
(***************************************************************************)
C4_DuplicateIsSkipped ==
    \A i \in Runs :
        LET e == hist[i]
            k == e.lead.wamid
        IN  (/\ Flag(cfg.DEDUPE_BY_WAMID) /\ Truthy(k)
             /\ RowsWithKeyCell(e.before, k) # {}
             /\ e.dedupe.looked /\ ~e.dedupe.failed
             /\ ProvisionalWrote(e))
            => (/\ ~Notified(e)
                /\ StatusGiven(e.provisional) = "skipped"
                /\ e.final.called /\ StatusGiven(e.final) = "skipped"
                /\ Len(e.after) = Len(e.before)
                /\ e.result.status = "dedupe"
                /\ e.result.email_status = "skipped"
                /\ e.result.row \in RowsWithKeyCell(e.before, k))

(***************************************************************************)
(* C5 (as claimed): an upsert made with preserve_timestamp = true leaves   *)
(* the creation-timestamp cell of every row of its key that had a          *)
(* non-empty creation timestamp as it was, whatever timestamp the record   *)
(* supplies.                                                               *)
(* The code breaks it when the read of the current creation timestamp      *)
(* fails: the failure is swallowed and the supplied timestamp is written.  *)
(***************************************************************************)
C5_CreationTimestampKept ==
    \A u \in AllUpserts :
        \A r \in RowsOfKey(u.before, KeyOf(u.given)) :
            (/\ u.preserve_timestamp
             /\ TsCol(u.before) # 0
             /\ u.before[r][TsCol(u.before)] # "")
            => u.after[r][TsCol(u.before)] = u.before[r][TsCol(u.before)]

\* name is listed in IMMUTABLE_COLS, letter case and surrounding blanks aside
ListedImmutable(name) ==
    \E j \in 1..Len(cfg.IMMUTABLE_COLS) : Lower(Strip(cfg.IMMUTABLE_COLS[j])) = name

(***************************************************************************)
(* C6 (as claimed): after a pipeline run whose final upsert returned, the  *)
(* last-updated cell of the row that upsert wrote equals that row's        *)
(* creation-timestamp cell: the timestamp that was on the row before the   *)
(* run for a duplicate, the one the provisional step wrote for a new lead. *)
(* Read for sheets that only pipeline runs have written and for            *)
(* configurations that do not protect the last-updated column.             *)
(* The code breaks it on a re-delivery whose provisional upsert cannot     *)
(* read the creation timestamp: the creation timestamp is overwritten with *)
(* the time of the re-delivery while last-updated gets the old timestamp.  *)
(***************************************************************************)
C6_UpdatedAtIsTimestamp ==
    (Runs = 1..Len(hist) /\ ~ListedImmutable(Lower(Strip(cfg.COL_UPDATED_AT))))
    => \A i \in Runs :
          LET e == hist[i]
              r == e.final.row
          IN  (/\ e.final.called /\ ~e.final.raised
               /\ TsCol(e.after) # 0 /\ UpdCol(e.after) # 0
               /\ r \in RowsOfKey(e.after, OrEmpty(e.lead.wamid)))
              => /\ e.after[r][UpdCol(e.after)] = e.after[r][TsCol(e.after)]
                 /\ e.after[r][UpdCol(e.after)] =
                       IF e.dedupe.is_dup
                       THEN e.before[r][TsCol(e.after)]
                       ELSE e.provisional.sheet[r][TsCol(e.after)]

\* the upserts that took the update path
Updates == {u \in AllUpserts : u.path = "update"}

\* the lower-cased names of the fields of a record
FieldNames(rec) == {Lower(Strip(rec[i][1])) : i \in 1..Len(rec)}

\* the lower-cased name of column c
HeaderName(sh, c) == Lower(Strip(sh[1][c]))

\* an update changed no row but the located one, and added none
OtherRowsKept(u) ==
    /\ Len(u.after) = Len(u.before)
    /\ \A r \in 1..Len(u.before) : r # u.row => u.after[r] = u.before[r]

C8_ImmutableColumnsNeverWritten ==
    \A u \in Updates :
        \A c \in 1..Width :
            ListedImmutable(HeaderName(u.before, c))
            => /\ u.after[u.row][c] = u.before[u.row][c]
               /\ \A w \in 1..Len(u.writes) : u.writes[w].col # c

\* an update that did write cells, made without timestamp preservation, carried
\* another creation timestamp than the stored one for a row whose
\* creation-timestamp column is listed as immutable
C8_Witness ==
    \E u \in Updates :
        LET c == TsCol(u.before)
        IN  /\ ~u.raised /\ u.writes # <<>> /\ ~u.preserve_timestamp
            /\ c # 0 /\ u.row \in DataRows(u.before)
            /\ ListedImmutable(HeaderName(u.before, c))
            /\ u.before[u.row][c] # ""
            /\ \E i \in 1..Len(u.given) :
                  /\ Lower(Strip(u.given[i][1])) = HeaderName(u.before, c)
                  /\ u.given[i][2] # u.before[u.row][c]

\* every key lookup that answered a row: the sheet it read, the key it was
\* given and its answer.  Upserts look up before writing and, on the insert
\* path, again after the append; the pipeline looks up in its dedupe check.
LookupsOf(e) ==
    {[sheet |-> u.before, key |-> KeyOf(u.given), row |-> u.row] :
        u \in {v \in UpsertsOf(e) : v.path = "update"}}
    \cup
    {[sheet |-> u.after, key |-> KeyOf(u.given), row |-> u.relookup] :
        u \in {v \in UpsertsOf(e) : v.path = "insert" /\ v.relookup # NotFound}}
    \cup
    (IF e.op = "process" /\ e.dedupe.is_dup
     THEN {[sheet |-> e.before, key |-> e.lead.wamid, row |-> e.dedupe.row_idx]}
     ELSE {})

Lookups == UNION {LookupsOf(hist[i]) : i \in 1..Len(hist)}

(***************************************************************************)
(* C9 (as claimed): the key lookup answers a row only if that row's cell   *)
(* in the key column equals the key exactly.                               *)
(* False as stated: the comparison strips surrounding blanks, so a row     *)
(* whose key cell is " k1" is answered for the key "k1".                   *)
(***************************************************************************)
C9_LookupMatchesKeyCellExactly ==
    \A l \in Lookups : l.sheet[l.row][KeyCol(l.sheet)] = l.key

(***************************************************************************)
(* C9 (amended): the key lookup answers a row only if that row's cell in   *)
(* the key column equals the key once surrounding blanks are stripped from *)
(* both; a row in which the key occurs only in another column is never     *)
(* answered, by the fast path or by the fallback.                          *)
(***************************************************************************)
C9_LookupMatchesStrippedKeyCell ==
    \A l \in Lookups :
        /\ KeyCol(l.sheet) # 0
        /\ Strip(l.sheet[l.row][KeyCol(l.sheet)]) = Strip(l.key)

\* a lookup answered a row although an earlier row quotes the key in its
\* message body under another key
C9_Witness ==
    \E l \in Lookups :
        \E r \in DataRows(l.sheet) :
            LET m == ColOf(l.sheet, "message")
            IN  /\ m # 0 /\ r < l.row
                /\ l.sheet[r][m] = l.key
                /\ Strip(l.sheet[r][KeyCol(l.sheet)]) # l.key

(***************************************************************************)
(* C10 (as claimed): the key lookup never answers row 1, even for a key    *)
(* that is the text of the key column's header cell, so no upsert changes  *)
(* the header row.                                                         *)
(* The code breaks it: the fast path does not skip row 1, so the key       *)
(* "wamid" is found in the header row and the upsert overwrites header     *)
(* cells.                                                                  *)
(***************************************************************************)
C10_HeaderRowNeverMatched ==
    /\ \A l \in Lookups : l.row # 1
    /\ \A u \in AllUpserts : u.after[1] = u.before[1]

(***************************************************************************)
(* C11: two upserts of the same key overlap when the second runs its key   *)
(* lookup before the first has written.  If the first then takes the       *)
(* insert path, so does the second, whose lookup found nothing either, and *)
(* the sheet has two rows for the key: nothing serialises the calls.       *)
(***************************************************************************)
C11_OverlappingUpsertsBothInsert ==
    \A i, j \in 1..Len(hist) :
        (/\ i < j
         /\ KeyOf(hist[i].rec) = KeyOf(hist[j].rec)
         /\ hist[j].looked_after < i
         /\ hist[i].path = "insert"
         /\ RowsOfKey(hist[i].before, KeyOf(hist[i].rec)) = {})
        => /\ hist[j].found = NotFound
           /\ hist[j].path = "insert" /\ hist[j].created
           /\ Cardinality(RowsOfKey(hist[j].after, KeyOf(hist[j].rec))) >= 2

\* two overlapping upserts of one key have both finished, both answered
\* created, and the sheet holds two rows for the key
C11_Witness ==
    \E i, j \in 1..Len(hist) :
        /\ i < j
        /\ hist[i].worker # hist[j].worker
        /\ KeyOf(hist[i].rec) = KeyOf(hist[j].rec)
        /\ hist[j].looked_after < i
        /\ hist[i].created /\ hist[j].created
        /\ Cardinality(RowsOfKey(sheet, KeyOf(hist[i].rec))) = 2

\* a run made no store call and no notifier call
TouchedNothing(e) ==
    /\ e.after = e.before
    /\ ~e.dedupe.looked
    /\ ~e.provisional.called /\ ~e.final.called
    /\ ~Notified(e)

(***************************************************************************)
(* C12: when the extracted key, phone and name are all empty,              *)
(* process_incoming answers ok = false, status "error", error              *)
(* "invalid_payload", and makes no store call (no open, lookup, append or  *)
(* cell write) and no notifier call.                                       *)
(***************************************************************************)
C12_InvalidPayloadTouchesNothing ==
    \A i \in Runs :
        LET e == hist[i]
        IN  (/\ ~e.lead.raised
             /\ ~Truthy(e.lead.wamid) /\ ~Truthy(e.lead.phone) /\ ~Truthy(e.lead.name))
            => /\ e.result = ErrorResult("invalid_payload")
               /\ TouchedNothing(e)

\* an event with a message body but neither id, sender nor a name other than
\* blanks was delivered to a sheet that holds a lead
C12_Witness ==
    \E i \in Runs :
        /\ hist[i].payload = BlankEvent
        /\ Truthy(hist[i].lead.message)
        /\ Len(hist[i].before) > 1
        /\ hist[i].result.status = "error"

\* the dedupe lookup of a run failed: the sheet could not be opened, or a
\* read of the lookup raised
LookupFailed(e) ==
    e.dedupe.looked /\ (e.dedupe.failed \/ "findall" \in e.sc.dedupe)

(***************************************************************************)
(* C13: a run whose dedupe lookup fails because the store is unreachable   *)
(* treats the event as not a duplicate: it still calls the provisional     *)
(* upsert, with status "pending", and when that upsert succeeds it calls   *)
(* the notifier; the lookup failure alone gives no error outcome (the      *)
(* status of the result is "ok", and ok is true when the notifier sent).   *)
(***************************************************************************)
C13_LookupFailureIsNotADuplicate ==
    \A i \in Runs :
        LET e == hist[i]
        IN  LookupFailed(e)
            => /\ ~e.dedupe.is_dup
               /\ e.provisional.called
               /\ StatusGiven(e.provisional) = "pending"
               /\ ~e.provisional.raised
                    => /\ Notified(e)
                       /\ e.result.status = "ok"
                       /\ e.result.ok = (e.outcome = "sent")
               /\ e.provisional.raised => e.result.error = "sheets_upsert_failed"

\* the lookup failed for a key that has a row, the provisional upsert went
\* through and the notifier was called again
C13_Witness ==
    \E i \in Runs :
        /\ LookupFailed(hist[i])
        /\ hist[i].dedupe.failed
        /\ RowsOfKey(hist[i].before, hist[i].lead.wamid) # {}
        /\ ~hist[i].provisional.raised
        /\ Notified(hist[i])
        /\ hist[i].result.status = "ok"

(***************************************************************************)
(* C14: when the notifier answers false or raises, the run does not stop:  *)
(* it records delivery status "error", still calls the final upsert with   *)
(* that status, and returns status "ok" (not "error"), email_status        *)
(* "error" and ok = false.                                                 *)
(***************************************************************************)
C14_NotifierFailureIsRecorded ==
    \A i \in Runs :
        LET e == hist[i]
        IN  e.notifier \in {"false", "raise"}
            => /\ e.reached = "result"
               /\ e.final.called
               /\ StatusGiven(e.final) = "error"
               /\ e.result.status = "ok"
               /\ e.result.email_status = "error"
               /\ ~e.result.ok

\* the notifier raised, and the final upsert wrote "error" on the row of the
\* key; on another run the notifier answered false
C14_Witness ==
    /\ \E i \in Runs :
        /\ hist[i].notifier = "raise"
        /\ ~hist[i].final.raised
        /\ \E r \in RowsOfKey(hist[i].after, hist[i].lead.wamid) :
               hist[i].after[r][ColOf(hist[i].after, cfg.COL_STATUS_EMAIL)] = "error"
    /\ \E i \in Runs : hist[i].notifier = "false" /\ hist[i].final.called

(***************************************************************************)
(* C15: when the provisional upsert raises, the run returns status "error" *)
(* with error "sheets_upsert_failed", and after that failure it neither    *)
(* calls the notifier nor attempts the final upsert.                       *)
(***************************************************************************)
C15_ProvisionalFailureEndsRun ==
    \A i \in Runs :
        LET e == hist[i]
        IN  (e.provisional.called /\ e.provisional.raised)
            => /\ e.result = ErrorResult("sheets_upsert_failed")
               /\ e.reached = "provisional"
               /\ ~Notified(e)
               /\ ~e.final.called

\* a provisional upsert raised on a cell write to the row of its key, and the
\* notifier that would have sent was not called
C15_Witness ==
    \E i \in Runs :
        /\ hist[i].sc.provisional = {"update"}
        /\ hist[i].provisional.raised /\ hist[i].provisional.path = "update"
        /\ hist[i].outcome = "sent" /\ ~Notified(hist[i])

\* the result of run e had its final upsert met no failure
ResultWithoutFinalFailure(e) ==
    process_incoming(e.before, cfg, e.payload, [e.sc EXCEPT !.final = {}],
                     e.outcome, e.t).result

(***************************************************************************)
(* C16: when the final upsert raises, the result of the run (status, ok,   *)
(* email_status, row) is the result the same run returns when its final    *)
(* upsert succeeds with the same notifier outcome.                         *)
(***************************************************************************)
C16_FinalFailureLeavesResult ==
    \A i \in Runs :
        LET e == hist[i]
        IN  (e.final.called /\ e.final.raised)
            => e.result = ResultWithoutFinalFailure(e)

\* final upserts raised after the notifier answered false, and on the run of a
\* duplicate after one cell was written
C16_Witness ==
    /\ \E i \in Runs : hist[i].final.called /\ hist[i].final.raised /\ hist[i].result.email_status = "error"
    /\ \E i \in Runs :
        /\ hist[i].final.called /\ hist[i].final.raised
        /\ hist[i].result.status = "dedupe" /\ Len(hist[i].final.writes) = 1

\* the dedupe lookup of run e found a row
LookupFound(e) == e.dedupe.looked /\ e.dedupe.is_dup

\* extraction, validation or the provisional upsert of run e failed
RunFailed(e) ==
    \/ e.lead.raised
    \/ e.reached = "validate"
    \/ e.provisional.called /\ e.provisional.raised

(***************************************************************************)
(* C17 (as claimed): the status of the result is "dedupe" exactly when the *)
(* dedupe lookup found an existing row, "ok" exactly when it did not and   *)
(* the provisional upsert succeeded, and "error" exactly when extraction,  *)
(* validation or the provisional upsert failed; no other value occurs.     *)
(***************************************************************************)
C17_StatusByLookupAlone ==
    \A i \in Runs :
        LET e == hist[i]
        IN  /\ e.result.status \in {"dedupe", "ok", "error"}
            /\ (e.result.status = "dedupe") = LookupFound(e)
            /\ (e.result.status = "ok") = (~LookupFound(e) /\ ProvisionalWrote(e))
            /\ (e.result.status = "error") = RunFailed(e)

(***************************************************************************)
(* C17 (amended): the status of the result is "dedupe" exactly when the    *)
(* dedupe lookup found an existing row and the provisional upsert          *)
(* succeeded, "ok" exactly when the lookup found none and the provisional  *)
(* upsert succeeded, and "error" exactly when extraction, validation or    *)
(* the provisional upsert failed; no other value occurs.                   *)
(***************************************************************************)
C17_StatusByLookupAndProvisional ==
    \A i \in Runs :
        LET e == hist[i]
        IN  /\ e.result.status \in {"dedupe", "ok", "error"}
            /\ (e.result.status = "dedupe") = (LookupFound(e) /\ ProvisionalWrote(e))
            /\ (e.result.status = "ok") = (~LookupFound(e) /\ ProvisionalWrote(e))
            /\ (e.result.status = "error") = RunFailed(e)

\* the lookup found the row of the key, the provisional upsert raised, and the
\* run answered "error"
C17_Witness ==
    \E i \in Runs :
        /\ LookupFound(hist[i])
        /\ hist[i].dedupe.row_idx \in RowsOfKey(hist[i].before, hist[i].lead.wamid)
        /\ hist[i].provisional.called /\ hist[i].provisional.raised
        /\ hist[i].result.status = "error"

\* the delivery status on row r of sheet sh
StatusCell(sh, r) == sh[r][ColOf(sh, Lower(Strip(cfg.COL_STATUS_EMAIL)))]

\* run e met a key that had no row, and ended with status "ok"
NewKeyRunOk(e) ==
    /\ Truthy(e.lead.wamid)
    /\ RowsOfKey(e.before, e.lead.wamid) = {}
    /\ e.result.status = "ok"

\* no step of run e took a row away
RowsNeverRemoved(e) ==
    /\ Len(e.after) >= Len(e.before)
    /\ e.provisional.called
         => Len(e.provisional.sheet) >= Len(e.before) /\ Len(e.after) >= Len(e.provisional.sheet)
    /\ \A r \in DataRows(e.before) :
         e.before[r][KeyCol(e.before)] # "" => e.after[r][KeyCol(e.after)] # ""

LiteralKey(rec) == Strip(OrEmpty(Get(rec, "wamid")))
AliasKey(rec) == Strip(OrEmpty(Get(rec, Strip(cfg.COL_WAMID))))

(***************************************************************************)
(* C19: with the store answering, upsert of a record whose key is absent   *)
(* or empty under both the literal name "wamid" and the configured name    *)
(* raises the missing-key error and leaves every row unchanged; a record   *)
(* with a non-empty key under either name is accepted (the call returns).  *)
(***************************************************************************)
C19_KeyUnderEitherNameAccepted ==
    \A i \in 1..Len(hist) :
        LET e == hist[i]
        IN  (e.op = "upsert" /\ e.faults = {})
            => /\ (LiteralKey(e.rec) = "" /\ AliasKey(e.rec) = "")
                    => e.raised /\ e.error = "ValueError" /\ e.after = e.before
               /\ (LiteralKey(e.rec) # "" \/ AliasKey(e.rec) # "")
                    => ~e.raised

Posts == {i \in 1..Len(hist) : hist[i].op = "post"}

\* the body of a response carries an error
CarriesError(response) ==
    /\ "ok" \in DOMAIN response /\ ~response.ok
    /\ "error" \in DOMAIN response \/ "email_status" \in DOMAIN response

(***************************************************************************)
(* C20: the handler of POST /webhook answers HTTP 200 for every outcome of *)
(* processing: a body that is no JSON, an error result of the pipeline, an *)
(* exception raised while processing; the error is carried in the body of  *)
(* the response.                                                           *)
(***************************************************************************)
C20_PostAlwaysAnswers200 ==
    \A i \in Posts :
        LET e == hist[i]
        IN  /\ e.code = 200
            /\ (e.body.kind # "object" \/ e.reached # "result")
                 => CarriesError(e.response)

\* the calls that took the insert path and returned
Inserts ==
    {i \in 1..Len(hist) :
        /\ hist[i].op \in {"upsert", "append"}
        /\ hist[i].path \in {"insert", "append"}
        /\ ~hist[i].raised}

(***************************************************************************)
(* C21: on the insert path the row number returned, by upsert_by_wamid and *)
(* by append_by_header, is the 1-based number of the row this very call    *)
(* appended; when the lookup after the append finds nothing it is the      *)
(* count of filled rows; it is always at least 2.                          *)
(***************************************************************************)
C21_InsertReturnsAppendedRow ==
    \A i \in Inserts :
        LET e == hist[i]
        IN  /\ Len(e.after) = Len(e.before) + 1
            /\ e.row = Len(e.after)
            /\ e.relookup = NotFound => e.row = get_all_values_len(e.after)
            /\ e.row >= 2

\* the fields of record rec whose stripped, lower-cased name is the
\* lower-cased header of column p of sheet sh
FieldsOfColumn(sh, rec, p) ==
    {j \in 1..Len(rec) : Lower(Strip(OrEmpty(rec[j][1]))) = Lower(Strip(sh[1][p]))}

(***************************************************************************)
(* C22: on the insert path of upsert exactly one row is appended, as wide  *)
(* as the header row; at each header position it holds the value of the    *)
(* record field whose lower-cased name is that header, and the empty       *)
(* string where the record has no such field (or the field has no value);  *)
(* fields that match no header leave nothing on the sheet, and the rows    *)
(* above stay as they were.                                                *)
(***************************************************************************)
C22_InsertAlignsRowToHeader ==
    \A i \in Inserts :
        LET e == hist[i]
            new == Len(e.before) + 1
        IN  e.op = "upsert"
            => /\ Len(e.after) = new
               /\ SubSeq(e.after, 1, Len(e.before)) = e.before
               /\ Len(e.appended) = Len(row_values(e.before, 1))
               /\ \A p \in 1..Width :
                    e.after[new][p] =
                        IF FieldsOfColumn(e.before, e.rec, p) = {} THEN ""
                        ELSE StoreValue(e.rec[Max(FieldsOfColumn(e.before, e.rec, p))][2])

\* an upsert appended the row of a record that has a field in mixed case, a
\* field without a value and a field no header matches, under a row already
\* on the sheet
C22_Witness ==
    \E i \in Inserts :
        /\ hist[i].op = "upsert"
        /\ hist[i].rec = LooseRecord("k2")
        /\ Len(hist[i].before) = 2
        /\ hist[i].after[3][ColOf(hist[i].after, "timestamp")] = "t1"
        /\ hist[i].after[3][ColOf(hist[i].after, "name")] = ""

(***************************************************************************)
(* C23: a network or auth failure of a store call made during an upsert    *)
(* reaches the caller as an error; in particular a key lookup whose reads  *)
(* all fail (the text search and the scan of the key column) never makes   *)
(* upsert take the insert path and append a row.                           *)
(***************************************************************************)
C23_FailedLookupNeverInserts ==
    \A i \in 1..Len(hist) :
        LET e == hist[i]
        IN  (e.op = "upsert" /\ {"findall", "col_values"} \subseteq e.faults)
            => /\ e.raised
               /\ e.path # "insert"
               /\ e.after = e.before

\* the steps executed, by every run
Steps == {i \in 1..Len(hist) : hist[i].op = "step"}

\* the place of a step in the order of process_incoming
Rank(step) ==
    CASE step = "extract" -> 1
      [] step = "validate" -> 2
      [] step = "dedupe" -> 3
      [] step = "provisional" -> 4
      [] step = "notify" -> 5
      [] step = "final" -> 6
      [] step = "result" -> 7

\* the steps of the run of step i that were executed before it
EarlierSteps(i) == {j \in Steps : j < i /\ hist[j].run = hist[i].run}

(***************************************************************************)
(* C24: every run executes its steps in the order extract, validate,       *)
(* dedupe check, provisional upsert, notify-or-skip, final upsert, result, *)
(* none left out before the run returns; the notifier is called only after *)
(* the provisional upsert of the run has returned without raising and      *)
(* before its final upsert; a run that fails at extract, validate or the   *)
(* provisional upsert returns an error there and executes no later step.   *)
(***************************************************************************)
C24_StepsInFixedOrder ==
    \A i \in Steps :
        LET e == hist[i]
        IN  /\ Rank(e.step) = Cardinality(EarlierSteps(i)) + 1
            /\ \A j \in EarlierSteps(i) :
                 Rank(hist[j].step) < Rank(e.step) /\ ~hist[j].returned
            /\ e.called
                 => /\ e.step = "notify"
                    /\ \E j \in EarlierSteps(i) :
                         hist[j].step = "provisional" /\ ~hist[j].failed
                    /\ \A j \in EarlierSteps(i) : hist[j].step # "final"
            /\ (e.failed /\ e.step \in {"extract", "validate", "provisional"})
                 => e.returned /\ e.result.status = "error"
            /\ e.returned /\ e.step # "result" => e.failed

\* one run went through all seven steps and called the notifier; another
\* failed at its provisional upsert and stopped there
C24_Witness ==
    /\ \E i \in Steps :
        /\ hist[i].step = "result" /\ hist[i].result.status = "ok"
        /\ \E j \in EarlierSteps(i) : hist[j].called
    /\ \E i \in Steps :
        /\ hist[i].step = "provisional" /\ hist[i].failed
        /\ \A j \in Steps : j > i => hist[j].run # hist[i].run
        /\ inflight["w1"].pc = "idle"

\* the calls of upsert and of the notifier that run e made
UpsertCallsOf(e) ==
    (IF e.provisional.called THEN 1 ELSE 0) + (IF e.final.called THEN 1 ELSE 0)
NotifierCallsOf(e) == IF Notified(e) THEN 1 ELSE 0

(***************************************************************************)
(* C25: a run ends without retrying a step: it calls the notifier at most  *)
(* once and upsert at most twice (provisional and final), and it appends   *)
(* at most one row to the store.                                           *)
(***************************************************************************)
C25_RunAppendsAtMostOneRow ==
    \A i \in Runs :
        LET e == hist[i]
        IN  /\ NotifierCallsOf(e) <= 1
            /\ UpsertCallsOf(e) <= 2
            /\ Len(e.after) <= Len(e.before) + 1

(***************************************************************************)
(* C26: on the update path with preserve_timestamp = true, when the read   *)
(* of the row's creation-timestamp cell fails, upsert still does not       *)
(* overwrite the stored creation timestamp with the value of the incoming  *)
(* record.                                                                 *)
(***************************************************************************)
C26_TimestampKeptWhenReadFails ==
    \A i \in 1..Len(hist) :
        LET e == hist[i]
        IN  (/\ e.op = "upsert"
             /\ e.path = "update"
             /\ e.preserve_timestamp
             /\ "cell" \in e.faults
             /\ TsCol(e.before) # 0
             /\ e.before[e.row][TsCol(e.before)] # "")
            => e.after[e.row][TsCol(e.after)] = e.before[e.row][TsCol(e.before)]

\* the fields of a record that name the last-updated column, whatever their
\* letter case, and hold a non-empty value
SuppliedUpdatedAt(rec) ==
    {j \in 1..Len(rec) :
        /\ Lower(Strip(OrEmpty(rec[j][1]))) = Lower(Strip(cfg.COL_UPDATED_AT))
        /\ Strip(OrEmpty(rec[j][2])) # ""}

(***************************************************************************)
(* C27: on the update path, when the header has a last-updated column and  *)
(* the incoming record has no non-empty value for it, upsert writes the    *)
(* current local time into the last-updated cell of the row; when the      *)
(* record supplies a non-empty value, that value is written unchanged.     *)
(***************************************************************************)
C27_UpdatedAtFilledOrKept ==
    \A u \in Updates :
        (~u.raised /\ UpdCol(u.before) # 0)
        => u.after[u.row][UpdCol(u.before)] =
              IF SuppliedUpdatedAt(u.given) = {} THEN now_local_str(u.t)
              ELSE u.given[Max(SuppliedUpdatedAt(u.given))][2]

\* the keys looked up on every sheet the model reaches
ProbeKeys == {"k1", "k2", "wamid"}

\* what a path of the lookup returns: its first match, or None
FirstOrNone(rows) == IF rows = {} THEN NotFound ELSE Min(rows)

(***************************************************************************)
(* C28: for every key and every sheet, the fast path of the key lookup     *)
(* (text search filtered to the key column) and its fallback (scan of the  *)
(* key column) return the same result: the first data row whose key cell   *)
(* equals the key, or not found.                                           *)
(***************************************************************************)
C28_FastPathEqualsFallback ==
    KeyCol(sheet) # 0
    => \A k \in ProbeKeys :
          /\ FirstOrNone(FastPathRows(sheet, k, KeyCol(sheet)))
               = FirstOrNone(FallbackRows(sheet, k, KeyCol(sheet)))
          /\ FirstOrNone(FallbackRows(sheet, k, KeyCol(sheet)))
               = FirstOrNone(RowsWithKeyCell(sheet, k))

LacksNestedField(payload) ==
    payload.shape \in {"no_entry", "no_changes", "no_value", "no_messages"}

(***************************************************************************)
(* C30: when the inbound event lacks the expected nested fields (no entry, *)
(* no changes, no value, no messages), extraction fails and the run        *)
(* returns status "error" with error "extract_failed", without touching    *)
(* the store.                                                              *)
(***************************************************************************)
C30_MissingFieldsFailExtraction ==
    \A i \in Runs :
        LET e == hist[i]
        IN  LacksNestedField(e.payload)
            => /\ e.lead.raised
               /\ e.result = ErrorResult("extract_failed")
               /\ TouchedNothing(e)

\* the columns of row 1 whose name, stripped, is not empty
NamedCols(sh) == {c \in 1..Width : Strip(sh[1][c]) # ""}

\* the names of those columns, in the order of the columns
RECURSIVE NamesInOrder(_, _)
NamesInOrder(sh, c) ==
    IF c > Width THEN <<>>
    ELSE IF c \in NamedCols(sh) THEN <<Strip(sh[1][c])>> \o NamesInOrder(sh, c + 1)
    ELSE NamesInOrder(sh, c + 1)

\* the last column of row 1 that holds anything, 0 when the row is empty
LastUsedCol(sh) ==
    IF \A c \in 1..Width : sh[1][c] = "" THEN 0
    ELSE Max({c \in 1..Width : sh[1][c] # ""})

HeaderReads == {i \in 1..Len(hist) : hist[i].op = "headers"}
HeaderIndexReads == {i \in 1..Len(hist) : hist[i].op = "header_index"}

(***************************************************************************)
(* C31 (as claimed): the header list holds only the non-empty column names *)
(* of row 1, in order, and the header index maps each lower-cased          *)
(* non-empty name to the zero-based position of its column in the sheet,   *)
(* the columns with empty names left out.                                  *)
(* The code keeps an empty string in the list for every unnamed column     *)
(* before the last named one, and of two columns of the same name the      *)
(* index holds the later one only.                                         *)
(***************************************************************************)
C31_HeadersAreTheNonEmptyNames ==
    /\ \A i \in HeaderReads :
          hist[i].list = NamesInOrder(hist[i].before, 1)
    /\ \A i \in HeaderIndexReads :
          /\ DOMAIN hist[i].index
               = {Lower(Strip(hist[i].before[1][c])) : c \in NamedCols(hist[i].before)}
          /\ \A c \in NamedCols(hist[i].before) :
                hist[i].index[Lower(Strip(hist[i].before[1][c]))] = c - 1

(***************************************************************************)
(* C31 (amended): the header list holds one entry per column of row 1 up   *)
(* to the last cell that holds anything, in order: the cell stripped, so   *)
(* the empty string for an unnamed column; the header index has exactly    *)
(* the lower-cased non-empty names as keys and maps each to the zero-based *)
(* position in the sheet of the last column of that name.                  *)
(***************************************************************************)
C31_HeadersArePositional ==
    /\ \A i \in HeaderReads :
          /\ Len(hist[i].list) = LastUsedCol(hist[i].before)
          /\ \A c \in 1..Len(hist[i].list) :
                hist[i].list[c] = Strip(hist[i].before[1][c])
    /\ \A i \in HeaderIndexReads :
          /\ DOMAIN hist[i].index
               = {Lower(Strip(hist[i].before[1][c])) : c \in NamedCols(hist[i].before)}
          /\ \A n \in DOMAIN hist[i].index :
                hist[i].index[n] =
                    Max({c \in NamedCols(hist[i].before) :
                            Lower(Strip(hist[i].before[1][c])) = n}) - 1

\* both were read on a header row with an unnamed column before a named one
\* and with the key column's name repeated in capitals
C31_Witness ==
    /\ \E c \in 1..Width, d \in NamedCols(sheet) : c < d /\ Strip(sheet[1][c]) = ""
    /\ \E c, d \in NamedCols(sheet) :
          c < d /\ Lower(Strip(sheet[1][c])) = Lower(Strip(sheet[1][d]))
    /\ HeaderReads # {}
    /\ HeaderIndexReads # {}

\* the runs whose dedupe check looked the key up on a sheet that showed no
\* row of the key
SawNoRow == {i \in Runs : hist[i].dedupe.looked /\ hist[i].lookups[1].seen = {}}

(***************************************************************************)
(* C32: when two runs for the same key overlap so that both dedupe checks  *)
(* complete before either provisional write is visible, both runs call the *)
(* notifier: the message is notified twice, even when only one row for the *)
(* key ends up in the store.                                               *)
(***************************************************************************)
C32_OverlappingRunsBothNotify ==
    \A i, j \in SawNoRow :
        (i # j /\ hist[i].lead.wamid = hist[j].lead.wamid)
        => /\ hist[i].notifier # "none"
           /\ hist[j].notifier # "none"

\* two runs of one key have both notified and the sheet holds one row of the
\* key: the second run's upsert found the row the first had appended
C32_Witness ==
    \E i, j \in SawNoRow :
        /\ i # j
        /\ hist[i].lead.wamid = hist[j].lead.wamid
        /\ hist[i].notifier = "sent" /\ hist[j].notifier = "sent"
        /\ hist[i].provisional.created # hist[j].provisional.created
        /\ Cardinality(RowsOfKey(sheet, hist[i].lead.wamid)) = 1

\* every key lookup made so far, by the runs that returned and by those
\* under way
LookupsMade ==
    UNION {{hist[i].lookups[n] : n \in 1..Len(hist[i].lookups)} : i \in Runs}
    \cup UNION {{inflight[w].lookups[n] : n \in 1..Len(inflight[w].lookups)} :
                    w \in {v \in Workers : inflight[v].pc # "idle"}}

\* the pairs of returned runs of one key that have each appended a row
BothAppended ==
    {p \in Runs \X Runs :
        /\ p[1] # p[2]
        /\ hist[p[1]].lead.wamid = hist[p[2]].lead.wamid
        /\ hist[p[1]].appended_at # 0
        /\ hist[p[2]].appended_at # 0}

(***************************************************************************)
(* C33: once two overlapping runs of one key have each appended a row,     *)
(* every key lookup that reads both rows (the lookups after the appends,   *)
(* the final upserts, the dedupe checks and upserts of re-deliveries)      *)
(* answers the first of the two rows; the second row is never written      *)
(* again and keeps the delivery status pending (its last-updated cell      *)
(* stays empty); and both runs report the number of the first row.         *)
(***************************************************************************)
C33_SecondRowStaysPending ==
    /\ \A l \in LookupsMade : l.seen # {} => l.row = Min(l.seen)
    /\ \A k \in {"k1", "k2"} :
          \A r \in RowsOfKey(sheet, k) :
              r # Min(RowsOfKey(sheet, k))
              => /\ StatusCell(sheet, r) = "pending"
                 /\ sheet[r][UpdCol(sheet)] = ""
    /\ \A p \in BothAppended :
          LET first == Min({hist[p[1]].appended_at, hist[p[2]].appended_at})
          IN  \A i \in {p[1], p[2]} :
                  /\ hist[i].final.path = "update"
                  /\ hist[i].final.row = first
                  /\ hist[i].result.row = first

\* two runs of one key appended rows 2 and 3 and returned, a re-delivery of
\* the event was answered as a duplicate of row 2, and row 3 is still pending
C33_Witness ==
    /\ \E p \in BothAppended :
          /\ hist[p[1]].appended_at = 2 /\ hist[p[2]].appended_at = 3
          /\ hist[p[2]].provisional.relookup = 2
          /\ hist[p[2]].result.row = 2
          /\ \E j \in Runs :
                /\ hist[j].lead.wamid = hist[p[1]].lead.wamid
                /\ hist[j].dedupe.is_dup
                /\ hist[j].lookups[1].seen = {2, 3}
                /\ hist[j].result.row = 2
          /\ StatusCell(sheet, 2) = "skipped"
          /\ StatusCell(sheet, 3) = "pending"

\* the lead of run e has a phone or a name and no key
KeylessLead(e) ==
    /\ ~e.lead.raised
    /\ ~Truthy(e.lead.wamid)
    /\ Truthy(e.lead.phone) \/ Truthy(e.lead.name)

(***************************************************************************)
(* C34: an event that has a phone or a name but no message key passes      *)
(* validation (and skips the dedupe lookup), then fails in the provisional *)
(* upsert with the missing-key error: the run returns status "error" with  *)
(* error "sheets_upsert_failed", no row is written, the notifier is not    *)
(* called and no final upsert is made.                                     *)
(***************************************************************************)
C34_KeylessEventFailsInUpsert ==
    \A i \in Runs :
        LET e == hist[i]
        IN  KeylessLead(e)
            => /\ e.reached = "provisional"
               /\ ~e.dedupe.looked
               /\ e.provisional.called
               /\ e.provisional.raised
               /\ e.provisional.error = "ValueError"
               /\ e.result = ErrorResult("sheets_upsert_failed")
               /\ e.after = e.before
               /\ e.notifier = "none"
               /\ ~e.final.called

\* an event that carries a contact name and nothing else, then an event with
\* phone and name, both without a key: each failed in its provisional upsert
C34_Witness ==
    \E i, j \in Runs :
        /\ i < j
        /\ KeylessLead(hist[i]) /\ ~Truthy(hist[i].lead.phone)
        /\ KeylessLead(hist[j]) /\ Truthy(hist[j].lead.phone)
        /\ hist[i].provisional.error = "ValueError"
        /\ hist[j].provisional.error = "ValueError"
        /\ hist[j].result = ErrorResult("sheets_upsert_failed")

C36_OkFlagFollowsEmailStatus ==
    \A i \in Runs :
        LET e == hist[i]
        IN  e.result.status # "error"
            => /\ e.result.status \in {"ok", "dedupe"}
               /\ e.result.ok = (e.result.email_status \in {"sent", "skipped"})
               /\ (~e.dedupe.is_dup /\ e.notifier \in {"false", "raise"})
                  => /\ e.result.status = "ok"
                     /\ e.result.email_status = "error"
                     /\ ~e.result.ok

\* a new lead whose notifier raised was reported "ok" with ok = false, after
\* a lead that was notified and reported ok = true
C36_Witness ==
    \E i, j \in Runs :
        /\ i < j
        /\ hist[i].result.status = "ok" /\ hist[i].result.ok
        /\ hist[i].result.email_status = "sent"
        /\ ~hist[j].dedupe.is_dup
        /\ hist[j].notifier = "raise"
        /\ hist[j].result.status = "ok" /\ ~hist[j].result.ok

(***************************************************************************)
(* C37 (as claimed): with deduplication disabled, every delivery of an     *)
(* event with a key skips the dedupe lookup and, its provisional upsert    *)
(* having returned, is reported with status "ok" and calls the notifier,   *)
(* while the upserts update the existing row in place: deliveries one      *)
(* after another leave one row for the key.                                *)
(* The code breaks the last part: an upsert whose lookup reads fail takes  *)
(* the key for a new one and appends another row for it.                   *)
(***************************************************************************)
C37_NoDedupeStillOneRow ==
    ~Flag(cfg.DEDUPE_BY_WAMID)
    => \A i \in Runs :
          LET e == hist[i]
          IN  Truthy(e.lead.wamid)
              => /\ ~e.dedupe.looked
                 /\ e.provisional.called
                 /\ ~e.provisional.raised
                    => /\ e.result.status = "ok"
                       /\ e.notifier # "none"
                 /\ Cardinality(RowsOfKey(e.after, e.lead.wamid)) <= 1

\* the cell writes an update would make if every write answered
WritesMeant(u) ==
    UpdatePath(u.before, cfg, u.given, u.row, u.preserve_timestamp,
               u.faults \ {"update", "update2"}, u.t).writes

\* the updates one of whose cell writes failed
FailedUpdates ==
    {u \in Updates : u.faults \cap {"update", "update2"} # {} /\ Len(u.writes) < Len(WritesMeant(u))}

(***************************************************************************)
(* C38: the update path writes its cells one at a time, without rollback:  *)
(* when a cell write fails the error reaches the caller, the cells written *)
(* before it in the same call keep their new values, and the remaining     *)
(* cells (of the row and of every other row) keep their old values.        *)
(***************************************************************************)
C38_FailedUpdateKeepsEarlierWrites ==
    \A u \in FailedUpdates :
        /\ u.raised
        /\ u.writes = SubSeq(WritesMeant(u), 1, Len(u.writes))
        /\ Len(u.after) = Len(u.before)
        /\ \A r \in 1..Len(u.after), c \in 1..Width :
              u.after[r][c] =
                  IF r = u.row /\ \E n \in 1..Len(u.writes) : u.writes[n].col = c
                  THEN u.writes[CHOOSE n \in 1..Len(u.writes) : u.writes[n].col = c].value
                  ELSE u.before[r][c]

\* a status update failed at its second write: the status cell holds the new
\* value, the notes cell it was about to write still holds the old one
C38_Witness ==
    \E u \in FailedUpdates :
        /\ u.raised
        /\ Len(u.writes) = 1
        /\ u.before[u.row][u.writes[1].col] = "pending"
        /\ u.after[u.row][u.writes[1].col] = "sent"
        /\ \E n \in 2..Len(WritesMeant(u)) :
              /\ WritesMeant(u)[n].value # u.before[u.row][WritesMeant(u)[n].col]
              /\ u.after[u.row][WritesMeant(u)[n].col] = u.before[u.row][WritesMeant(u)[n].col]

====
